---- MODULE Spec2Model ----
(***************************************************************************)
(* The compute-node manager (nova/compute/manager.py): the per-instance    *)
(* task-state machine, its decorators (reverts_task_state,                 *)
(* _error_out_instance_on_exception), the per-uuid lock and the resource   *)
(* claims, as a state machine over the instance records of the record      *)
(* store.  Every _instance_update is one atomic step; between two steps of *)
(* a workflow any other workflow may run.                                  *)
(***************************************************************************)
EXTENDS Integers, Naturals, FiniteSets, Sequences, TLC

VARIABLES
    instances,   \* uuid -> the instance record of the record store
    calls,       \* call slot -> the manager call running in it (its position and locals)
    quota,       \* the quota reservations of the resize in flight
    migration,   \* the migration record of the resize in flight
    tracker,     \* the resource trackers' claims, by instance and kind
    lock,        \* uuid -> the call holding lockutils' lock of that name
    bdms,        \* uuid -> the volume block device mappings of the instance
    resource_tracker_dict   \* the manager's registry of resource trackers

vars ==
    <<instances, calls, quota, migration, tracker, lock, bdms,
      resource_tracker_dict>>

-----------------------------------------------------------------------------
(* Values *)

\* task_state None
None == "none"

\* self._resource_tracker_dict = {}: the trackers held, as pairs of node name
\* and tracker, and the number of trackers created so far
NoTrackers == [dict |-> {}, created |-> 0]
\* a field that an update's kwargs do not name
Keep == "keep"
\* an update without expected_task_state
AnyTask == {"any"}

Instances == {"i1", "i2"}

\* the compute hosts (each runs this manager) and the nodes they manage
Hosts == {"h1", "h2"}

\* Call slots: the manager calls that can be in progress at once.  w1 runs
\* the lifecycle workflows, t1 terminate_instance, b1 and b2 run_instance,
\* v1 the volume workflows, r1 the periodic tasks (_reclaim_queued_deletes,
\* _sync_power_states).
CallIds == {"w1", "t1", "b1", "b2", "v1", "r1"}

\* How often quota commit / rollback are counted before the count saturates.
MaxQuotaOps == 2

\* the tracked capacity of every node
NodeVcpus == 2
NodeMemoryMb == 1024

\* the instance types: vcpus and memory_mb
Flavors == {"A", "B"}
FlavorVcpus(f) == IF f = "A" THEN 1 ELSE 2
FlavorMemoryMb(f) == IF f = "A" THEN 512 ELSE 1024

IdleCall ==
    [wf |-> "none", inst |-> "none", pc |-> "idle", exc |-> "none",
     reservations |-> FALSE, errored |-> FALSE,
     exit_ts |-> "none", exit_vm |-> "none", entry_ts |-> "none",
     last_ts |-> "unwritten", fallbacks |-> 0,
     image_type |-> "none", orig_vm_state |-> "none", recreate |-> FALSE,
     driver_failed |-> FALSE, host |-> "h1", retry |-> FALSE,
     request_spec |-> FALSE, resubmitted |-> 0, retry_exc |-> "none",
     node |-> "none",
     claim |-> "none", shape |-> "none", invoked |-> {},
     deallocated |-> FALSE, dealloc_failed |-> FALSE, build_exc |-> "none",
     rollback |-> "none", vm_power_state |-> "none", stops |-> 0,
     not_implemented |-> FALSE,
     rotation |-> {}, existing |-> {}, images |-> <<>>, deleted_images |-> <<>>,
     todo |-> {}, reclaimed |-> {}, swept |-> "none", window |-> 0,
     timeout |-> 0,
     reported |-> {}, uuids |-> FALSE, destroyed |-> {}, reverted |-> {},
     initialized |-> {}, driver_calls |-> {},
     nodename |-> "none", nodenames |-> {}, rt |-> 0,
     new_resource_tracker_dict |-> {}]

Terminal == {"returned", "raised"}

-----------------------------------------------------------------------------
(* The record store's conditional update *)

\* conductor_api.instance_update(uuid, expected_task_state=...): what it answers
conductor_instance_update(rec, expected) ==
    IF rec.deleted THEN "InstanceNotFound"
    ELSE IF expected # AnyTask /\ rec.task_state \notin expected
         THEN "UnexpectedTaskStateError"
         ELSE "ok"

\* the record after the update's kwargs are applied
Updated(rec, vm, ts) ==
    [rec EXCEPT !.vm_state = IF vm = Keep THEN @ ELSE vm,
                !.task_state = IF ts = Keep THEN @ ELSE ts]

\* lockutils.synchronized(uuid): the lock of call c's instance once c has left
\* the synchronized function
Unlock(lk, c, i) == [lk EXCEPT ![i] = IF @ = c THEN "none" ELSE @]

\* the call record moved to pc; leaving the workflow records what it leaves behind
Goto(cr, pc, irec) ==
    [cr EXCEPT !.pc = pc,
               !.exit_ts = IF pc \in Terminal THEN irec.task_state ELSE @,
               !.exit_vm = IF pc \in Terminal THEN irec.vm_state ELSE @]

\* ComputeManager._instance_update in call c: on success continue at okpc, else
\* the store's exception is in flight at failpc
instance_update(c, vm, ts, expected, okpc, failpc) ==
    LET i == calls[c].inst
        o == conductor_instance_update(instances[i], expected)
        new == Updated(instances[i], vm, ts)
    IN  IF o = "ok"
        THEN /\ instances' = [instances EXCEPT ![i] = new]
             /\ calls' = [calls EXCEPT ![c] =
                    Goto([@ EXCEPT !.last_ts = IF ts = Keep THEN @ ELSE ts,
                                   !.errored = @ \/ (vm = "error")], okpc, new)]
        ELSE /\ UNCHANGED instances
             /\ calls' = [calls EXCEPT ![c] =
                    Goto([@ EXCEPT !.exc = o], failpc, instances[i])]

-----------------------------------------------------------------------------
(* The decorators *)

\* the workflows decorated with @reverts_task_state
RevertsTaskState ==
    {"run_instance", "stop_instance", "start_instance", "soft_delete_instance",
     "restore_instance", "rebuild_instance", "reboot_instance",
     "snapshot_instance", "rescue_instance", "unrescue_instance",
     "revert_resize", "finish_revert_resize", "prep_resize", "resize_instance",
     "finish_resize", "pause_instance", "unpause_instance", "suspend_instance",
     "resume_instance", "reserve_block_device_name", "attach_volume",
     "detach_volume"}

\* where exception e continues once it has left the body of workflow wf
Escape(wf, e) ==
    IF wf \in RevertsTaskState /\ e # "UnexpectedTaskStateError"
    THEN "reverts_task_state"
    ELSE "raised"

\* reverts_task_state without its reset: the exception is only re-raised
reverts_task_state_without_reset(c) ==
    /\ calls[c].pc = "reverts_task_state"
    /\ calls' = [calls EXCEPT ![c] = Goto(@, "raised", instances[@.inst])]
    /\ UNCHANGED <<instances, quota, migration, tracker, lock, bdms>>

\* reverts_task_state: any exception but UnexpectedTaskStateError resets
\* task_state to None, ignoring a failure of that update, and re-raises the
\* exception it caught
reverts_task_state(c) ==
    LET i == calls[c].inst
        o == conductor_instance_update(instances[i], AnyTask)
        new == IF o = "ok" THEN Updated(instances[i], Keep, None) ELSE instances[i]
    IN  /\ calls[c].pc = "reverts_task_state"
        /\ instances' = [instances EXCEPT ![i] = new]
        /\ calls' = [calls EXCEPT ![c] =
               Goto([@ EXCEPT !.last_ts = IF o = "ok" THEN None ELSE @], "raised", new)]
        /\ UNCHANGED <<quota, migration, tracker, lock, bdms>>

\* _quota_rollback inside _error_out_instance_on_exception: it is outside the
\* helper's save_and_reraise_exception, so its own failure replaces the
\* exception and skips _set_instance_error_state
error_out_quota_rollback(c) ==
    /\ calls[c].pc = "error_out_quota_rollback"
    /\ \E ok \in BOOLEAN :
        IF ok
        THEN /\ quota' = [quota EXCEPT !.rollbacks = IF @ < MaxQuotaOps THEN @ + 1 ELSE @]
             /\ calls' = [calls EXCEPT ![c].pc = "error_out_set_error",
                                       ![c].rollback = "done"]
        ELSE /\ UNCHANGED quota
             /\ calls' = [calls EXCEPT ![c] =
                    Goto([@ EXCEPT !.exc = "QuotaRollbackError",
                                   !.rollback = "failed"],
                         Escape(calls[c].wf, "QuotaRollbackError"),
                         instances[calls[c].inst])]
    /\ UNCHANGED <<instances, migration, tracker, lock, bdms>>

\* _set_instance_error_state that also clears task_state
set_instance_error_state_clearing(c, nextpc) ==
    LET i == calls[c].inst
        o == conductor_instance_update(instances[i], AnyTask)
        new == IF o = "ok" THEN Updated(instances[i], "error", None) ELSE instances[i]
    IN  /\ instances' = [instances EXCEPT ![i] = new]
        /\ calls' = [calls EXCEPT ![c] =
               Goto([@ EXCEPT !.errored = @ \/ (o = "ok"),
                              !.last_ts = IF o = "ok" THEN None ELSE @],
                    nextpc, new)]

\* _set_instance_error_state: vm_state=ERROR with no expected task state; an
\* InstanceNotFound is swallowed
set_instance_error_state(c, nextpc) ==
    LET i == calls[c].inst
        o == conductor_instance_update(instances[i], AnyTask)
        new == IF o = "ok" THEN Updated(instances[i], "error", Keep) ELSE instances[i]
    IN  /\ instances' = [instances EXCEPT ![i] = new]
        /\ calls' = [calls EXCEPT ![c] =
               Goto([@ EXCEPT !.errored = @ \/ (o = "ok")], nextpc, new)]

\* the rest of _error_out_instance_on_exception: set ERROR, re-raise
error_out_set_error(c) ==
    /\ calls[c].pc = "error_out_set_error"
    /\ set_instance_error_state(c, Escape(calls[c].wf, calls[c].exc))
    /\ UNCHANGED <<quota, migration, tracker, lock, bdms>>

\* exception e raised inside a `with _error_out_instance_on_exception(...)` body
RaiseInErrorOut(cr, e) ==
    [cr EXCEPT !.exc = e,
               !.pc = IF cr.reservations THEN "error_out_quota_rollback"
                      ELSE "error_out_set_error"]

\* exception e raised outside any handler of the body of the workflow
RaiseOut(cr, e, irec) == Goto([cr EXCEPT !.exc = e], Escape(cr.wf, e), irec)

-----------------------------------------------------------------------------
(* The linear workflows: driver call, power-state refresh, final update *)

SimpleWorkflows ==
    {"stop_instance", "start_instance", "soft_delete_instance",
     "restore_instance", "pause_instance", "unpause_instance",
     "suspend_instance", "resume_instance", "rescue_instance",
     "unrescue_instance"}

\* the in-progress tag the caller has set when the manager method starts
EntryTaskState(wf) ==
    CASE wf = "stop_instance" -> "powering-off"
      [] wf = "start_instance" -> "powering-on"
      [] wf = "soft_delete_instance" -> "soft-deleting"
      [] wf = "restore_instance" -> "restoring"
      [] wf = "pause_instance" -> "pausing"
      [] wf = "unpause_instance" -> "unpausing"
      [] wf = "suspend_instance" -> "suspending"
      [] wf = "resume_instance" -> "resuming"
      [] wf = "rescue_instance" -> "rescuing"
      [] wf = "unrescue_instance" -> "unrescuing"
      [] wf = "rebuild_instance" -> "rebuilding"
      [] wf = "reboot_instance" -> "rebooting"
      [] wf = "snapshot_instance" -> "image_snapshot"
      [] wf = "backup_instance" -> "image_backup"
      [] wf = "prep_resize" -> "resize_prep"
      [] wf = "revert_resize" -> "resize_reverting"
      [] wf = "confirm_resize" -> None
      [] OTHER -> None

\* the vm_states in which the caller requests the workflow
RequestVmStates(wf) ==
    CASE wf = "stop_instance" -> {"active", "rescued", "error"}
      [] wf = "start_instance" -> {"stopped"}
      [] wf = "soft_delete_instance" -> {"active", "stopped", "error"}
      [] wf = "restore_instance" -> {"soft-delete"}
      [] wf = "pause_instance" -> {"active", "rescued"}
      [] wf = "unpause_instance" -> {"paused"}
      [] wf = "suspend_instance" -> {"active", "rescued"}
      [] wf = "resume_instance" -> {"suspended"}
      [] wf = "rescue_instance" -> {"active", "stopped"}
      [] wf = "unrescue_instance" -> {"rescued"}
      [] wf = "rebuild_instance" -> {"active", "stopped"}
      [] wf = "reboot_instance" -> {"active", "stopped", "paused", "suspended", "error"}
      [] wf = "snapshot_instance" -> {"active", "stopped", "paused", "suspended"}
      [] wf = "backup_instance" -> {"active", "stopped", "paused", "suspended"}
      [] wf = "prep_resize" -> {"active", "stopped"}
      [] wf = "revert_resize" -> {"resized"}
      [] wf = "confirm_resize" -> {"resized"}
      [] OTHER -> {}

\* the vm_state the final update writes
FinalVmState(wf) ==
    CASE wf = "stop_instance" -> "stopped"
      [] wf = "start_instance" -> "active"
      [] wf = "soft_delete_instance" -> "soft-delete"
      [] wf = "restore_instance" -> "active"
      [] wf = "pause_instance" -> "paused"
      [] wf = "unpause_instance" -> "active"
      [] wf = "suspend_instance" -> "suspended"
      [] wf = "resume_instance" -> "active"
      [] wf = "rescue_instance" -> "rescued"
      [] wf = "unrescue_instance" -> "active"

\* the expected_task_state of the final update (resume_instance passes none)
FinalExpectedTaskState(wf) ==
    CASE wf = "stop_instance" -> {"powering-off", "stopping"}
      [] wf = "start_instance" -> {"powering-on", "starting"}
      [] wf = "soft_delete_instance" -> {"soft-deleting"}
      [] wf = "restore_instance" -> {"restoring"}
      [] wf = "pause_instance" -> {"pausing"}
      [] wf = "unpause_instance" -> {"unpausing"}
      [] wf = "suspend_instance" -> {"suspending"}
      [] wf = "resume_instance" -> AnyTask
      [] wf = "rescue_instance" -> {"rescuing"}
      [] wf = "unrescue_instance" -> {"unrescuing"}

\* the workflows whose driver call runs inside _error_out_instance_on_exception
DriverCallErrorsOut == {"suspend_instance", "rescue_instance", "unrescue_instance"}

\* the workflows that fall back to power_off / power_on on NotImplementedError
HasFallback == {"soft_delete_instance", "restore_instance"}

\* what the driver call of a linear workflow can do: succeed, raise, or (for
\* an optional capability) raise NotImplementedError
DriverOutcomes(wf) ==
    {"ok", "Error"} \cup
    (IF wf \in HasFallback THEN {"NotImplementedError"} ELSE {})

\* a driver call whose NotImplementedError nobody catches
simple_driver_call_without_fallback(c) ==
    LET cr == calls[c]
        irec == instances[cr.inst]
    IN  /\ cr.wf \in SimpleWorkflows
        /\ cr.pc = "driver"
        /\ \E o \in DriverOutcomes(cr.wf) :
            calls' = [calls EXCEPT ![c] =
                IF o = "ok" THEN [cr EXCEPT !.pc = "final_update"]
                ELSE IF o = "NotImplementedError"
                THEN RaiseOut([cr EXCEPT !.not_implemented = TRUE], o, irec)
                ELSE IF cr.wf \in DriverCallErrorsOut
                     THEN RaiseInErrorOut(cr, "Error")
                     ELSE RaiseOut(cr, "Error", irec)]
        /\ UNCHANGED <<instances, quota, migration, tracker, lock, bdms>>

\* self.driver.<op>(instance) of a linear workflow; the NotImplementedError of
\* soft_delete and restore is caught
simple_driver_call(c) ==
    LET cr == calls[c]
        irec == instances[cr.inst]
    IN  /\ cr.wf \in SimpleWorkflows
        /\ cr.pc = "driver"
        /\ \E o \in DriverOutcomes(cr.wf) :
            calls' = [calls EXCEPT ![c] =
                IF o = "ok" THEN [cr EXCEPT !.pc = "final_update"]
                ELSE IF o = "NotImplementedError"
                THEN [cr EXCEPT !.pc = "fallback", !.not_implemented = TRUE]
                ELSE IF cr.wf \in DriverCallErrorsOut
                     THEN RaiseInErrorOut(cr, "Error")
                     ELSE RaiseOut(cr, "Error", irec)]
        /\ UNCHANGED <<instances, quota, migration, tracker, lock, bdms>>

\* the handler of NotImplementedError: driver.power_off for soft_delete,
\* driver.power_on for restore, which returns or raises
simple_fallback(c) ==
    LET cr == calls[c]
        called == [cr EXCEPT !.fallbacks = @ + 1]
    IN  /\ cr.wf \in HasFallback
        /\ cr.pc = "fallback"
        /\ \E ok \in BOOLEAN :
            calls' = [calls EXCEPT ![c] =
                IF ok THEN [called EXCEPT !.pc = "final_update"]
                ELSE RaiseOut(called, "Error", instances[cr.inst])]
        /\ UNCHANGED <<instances, quota, migration, tracker, lock, bdms>>

\* the final _instance_update of a linear workflow
simple_final_update(c) ==
    LET cr == calls[c]
        o == conductor_instance_update(instances[cr.inst],
                                       FinalExpectedTaskState(cr.wf))
    IN  /\ cr.wf \in SimpleWorkflows
        /\ cr.pc = "final_update"
        /\ instance_update(c, FinalVmState(cr.wf), None,
                           FinalExpectedTaskState(cr.wf),
                           "returned", Escape(cr.wf, o))
        /\ UNCHANGED <<quota, migration, tracker, lock, bdms>>

\* where an exception raised inside _error_out_instance_on_exception continues
ErrorOutPc(cr) ==
    IF cr.reservations THEN "error_out_quota_rollback" ELSE "error_out_set_error"

\* a call to a collaborator (driver, network, volume service) that returns or
\* raises; inside says whether it runs inside _error_out_instance_on_exception
external_call(c, okpc, inside) ==
    \E ok \in BOOLEAN :
        calls' = [calls EXCEPT ![c] =
            IF ok THEN Goto(@, okpc, instances[@.inst])
            ELSE IF inside THEN RaiseInErrorOut(@, "Error")
                 ELSE RaiseOut(@, "Error", instances[@.inst])]

-----------------------------------------------------------------------------
(* reboot_instance *)

\* the power-state refresh before the reboot: vm_state=ACTIVE, unconditional
reboot_refresh(c) ==
    LET cr == calls[c]
        o == conductor_instance_update(instances[cr.inst], AnyTask)
    IN  /\ cr.wf = "reboot_instance" /\ cr.pc = "reboot_refresh"
        /\ instance_update(c, "active", Keep, AnyTask, "reboot_driver",
                           Escape(cr.wf, o))
        /\ UNCHANGED <<quota, migration, tracker, lock, bdms>>

\* driver.reboot: an exception is logged as a fault and the method falls through
reboot_driver(c) ==
    /\ calls[c].wf = "reboot_instance" /\ calls[c].pc = "reboot_driver"
    /\ \E ok \in BOOLEAN :
        calls' = [calls EXCEPT ![c].pc = "reboot_final",
                               ![c].driver_failed = ~ok]
    /\ UNCHANGED <<instances, quota, migration, tracker, lock, bdms>>

\* the final update: vm_state=ACTIVE, task_state=None, unconditional; an
\* InstanceNotFound is logged and the method returns
reboot_final(c) ==
    LET i == calls[c].inst
        o == conductor_instance_update(instances[i], AnyTask)
        new == IF o = "ok" THEN Updated(instances[i], "active", None) ELSE instances[i]
    IN  /\ calls[c].wf = "reboot_instance" /\ calls[c].pc = "reboot_final"
        /\ instances' = [instances EXCEPT ![i] = new]
        /\ calls' = [calls EXCEPT ![c] =
               Goto([@ EXCEPT !.last_ts = IF o = "ok" THEN None ELSE @], "returned", new)]
        /\ UNCHANGED <<quota, migration, tracker, lock, bdms>>

-----------------------------------------------------------------------------
(* snapshot_instance *)

\* How many backups of an instance exist, and the largest rotation asked for.
MaxImages == 4
MaxRotation == 3

\* the rotation argument is optional: the empty set is None, {r} is r.
\* Python's truth value of it: None and 0 are false
Truthy(rotation) == rotation # {} /\ rotation # {0}

\* the value of a rotation that is given
RotationOf(rotation) == CHOOSE r \in rotation : TRUE

RECURSIVE SortDesc(_)
\* image_service.detail(sort_key='created_at', sort_dir='desc'): the backups,
\* named by their creation time, newest first
SortDesc(S) ==
    IF S = {} THEN <<>>
    ELSE LET newest == CHOOSE x \in S : \A y \in S : y <= x
         IN  <<newest>> \o SortDesc(S \ {newest})

\* the task_state the caller set for the image type
SnapshotEntry(image_type) ==
    IF image_type = "backup" THEN "image_backup" ELSE "image_snapshot"

\* the power-state refresh: no task_state, no precondition
snapshot_refresh(c) ==
    LET cr == calls[c]
        o == conductor_instance_update(instances[cr.inst], AnyTask)
    IN  /\ cr.wf = "snapshot_instance" /\ cr.pc = "snapshot_refresh"
        /\ instance_update(c, Keep, Keep, AnyTask, "snapshot_pending_upload",
                           Escape(cr.wf, o))
        /\ UNCHANGED <<quota, migration, tracker, lock, bdms>>

\* driver.snapshot, first callback: update_task_state(IMAGE_PENDING_UPLOAD)
\* expecting the image type's tag; or the driver raises before it
snapshot_pending_upload(c) ==
    LET cr == calls[c]
        exp == {SnapshotEntry(cr.image_type)}
        o == conductor_instance_update(instances[cr.inst], exp)
    IN  /\ cr.wf = "snapshot_instance" /\ cr.pc = "snapshot_pending_upload"
        /\ \/ instance_update(c, Keep, "image_pending_upload", exp,
                              "snapshot_uploading", Escape(cr.wf, o))
           \/ /\ calls' = [calls EXCEPT ![c] =
                      RaiseOut(@, "Error", instances[cr.inst])]
              /\ UNCHANGED instances
        /\ UNCHANGED <<quota, migration, tracker, lock, bdms>>

\* the second callback writing IMAGE_UPLOADING whatever the task_state is
snapshot_uploading_unconditional(c) ==
    LET cr == calls[c]
        o == conductor_instance_update(instances[cr.inst], AnyTask)
    IN  /\ cr.wf = "snapshot_instance" /\ cr.pc = "snapshot_uploading"
        /\ \/ instance_update(c, Keep, "image_uploading", AnyTask,
                              "snapshot_upload", Escape(cr.wf, o))
           \/ /\ calls' = [calls EXCEPT ![c] =
                      RaiseOut(@, "Error", instances[cr.inst])]
              /\ UNCHANGED instances
        /\ UNCHANGED <<quota, migration, tracker, lock, bdms>>

\* driver.snapshot, second callback: update_task_state(IMAGE_UPLOADING,
\* expected_state=IMAGE_PENDING_UPLOAD); or the driver raises before it
snapshot_uploading(c) ==
    LET cr == calls[c]
        exp == {"image_pending_upload"}
        o == conductor_instance_update(instances[cr.inst], exp)
    IN  /\ cr.wf = "snapshot_instance" /\ cr.pc = "snapshot_uploading"
        /\ \/ instance_update(c, Keep, "image_uploading", exp,
                              "snapshot_upload", Escape(cr.wf, o))
           \/ /\ calls' = [calls EXCEPT ![c] =
                      RaiseOut(@, "Error", instances[cr.inst])]
              /\ UNCHANGED instances
        /\ UNCHANGED <<quota, migration, tracker, lock, bdms>>

\* the rest of driver.snapshot: the upload succeeds or raises
snapshot_upload(c) ==
    /\ calls[c].wf = "snapshot_instance" /\ calls[c].pc = "snapshot_upload"
    /\ external_call(c, "snapshot_final", FALSE)
    /\ UNCHANGED <<instances, quota, migration, tracker, lock, bdms>>

\* task_state=None expecting IMAGE_UPLOADING; a snapshot (rotation None) is
\* then done, a backup goes on to rotate
snapshot_final(c) ==
    LET cr == calls[c]
        exp == {"image_uploading"}
        o == conductor_instance_update(instances[cr.inst], exp)
    IN  /\ cr.wf = "snapshot_instance" /\ cr.pc = "snapshot_final"
        /\ instance_update(c, Keep, None, exp,
                           IF cr.image_type = "backup" \/ Truthy(cr.rotation)
                           THEN "rotate_backups" ELSE "returned",
                           Escape(cr.wf, o))
        /\ UNCHANGED <<quota, migration, tracker, lock, bdms>>

\* the end of snapshot_instance: a snapshot with a rotation and a backup
\* without one are refused; else _rotate_backups asks the image service for
\* the backups of the instance, newest first, which may fail, and has nothing
\* to delete when they are no more than the rotation
rotate_backups(c) ==
    LET cr == calls[c]
        irec == instances[cr.inst]
        images == SortDesc(cr.existing)
    IN  /\ cr.wf = "snapshot_instance" /\ cr.pc = "rotate_backups"
        /\ IF cr.image_type = "snapshot"
           THEN calls' = [calls EXCEPT ![c] =
                    RaiseOut(cr, "ImageRotationNotAllowed", irec)]
           ELSE IF cr.rotation = {}
           THEN calls' = [calls EXCEPT ![c] =
                    RaiseOut(cr, "RotationRequiredForBackup", irec)]
           ELSE \E ok \in BOOLEAN :
                calls' = [calls EXCEPT ![c] =
                    IF ~ok THEN RaiseOut(cr, "Error", irec)
                    ELSE IF Len(images) > RotationOf(cr.rotation)
                    THEN [cr EXCEPT !.images = images, !.pc = "rotate_delete"]
                    ELSE Goto([cr EXCEPT !.images = images], "returned", irec)]
        /\ UNCHANGED <<instances, quota, migration, tracker, lock, bdms>>

\* a rotation that takes the image to delete from the front of the list
rotate_delete_newest_first(c) ==
    LET cr == calls[c]
        irec == instances[cr.inst]
        rest == Tail(cr.images)
        popped == [cr EXCEPT !.images = rest,
                             !.deleted_images = Append(@, Head(cr.images))]
    IN  /\ cr.wf = "snapshot_instance" /\ cr.pc = "rotate_delete"
        /\ \E ok \in BOOLEAN :
            calls' = [calls EXCEPT ![c] =
                IF ~ok THEN RaiseOut([cr EXCEPT !.images = rest], "Error", irec)
                ELSE IF Len(rest) > RotationOf(cr.rotation) THEN popped
                ELSE Goto(popped, "returned", irec)]
        /\ UNCHANGED <<instances, quota, migration, tracker, lock, bdms>>

\* one round of the loop over the excess: images.pop() takes the last image of
\* the list and image_service.delete deletes it, or raises
rotate_delete(c) ==
    LET cr == calls[c]
        irec == instances[cr.inst]
        rest == SubSeq(cr.images, 1, Len(cr.images) - 1)
        popped == [cr EXCEPT !.images = rest,
                             !.deleted_images = Append(@, cr.images[Len(cr.images)])]
    IN  /\ cr.wf = "snapshot_instance" /\ cr.pc = "rotate_delete"
        /\ \E ok \in BOOLEAN :
            calls' = [calls EXCEPT ![c] =
                IF ~ok THEN RaiseOut([cr EXCEPT !.images = rest], "Error", irec)
                ELSE IF Len(rest) > RotationOf(cr.rotation) THEN popped
                ELSE Goto(popped, "returned", irec)]
        /\ UNCHANGED <<instances, quota, migration, tracker, lock, bdms>>

-----------------------------------------------------------------------------
(* rebuild_instance: the whole body runs inside                            *)
(* _error_out_instance_on_exception (no reservations)                      *)

\* recreate=True (evacuation): capability, existence and shared-storage
\* checks, then host=self.host; any of them may raise
rebuild_recreate(c) ==
    LET cr == calls[c]
        o == conductor_instance_update(instances[cr.inst], AnyTask)
    IN  /\ cr.wf = "rebuild_instance" /\ cr.pc = "rebuild_recreate"
        /\ \/ instance_update(c, Keep, Keep, AnyTask, "rebuild_start", ErrorOutPc(cr))
           \/ /\ calls' = [calls EXCEPT ![c] = RaiseInErrorOut(@, "Error")]
              /\ UNCHANGED instances
        /\ UNCHANGED <<quota, migration, tracker, lock, bdms>>

\* power_state refresh with task_state=REBUILDING expecting REBUILDING
rebuild_start(c) ==
    LET cr == calls[c]
    IN  /\ cr.wf = "rebuild_instance" /\ cr.pc = "rebuild_start"
        /\ instance_update(c, Keep, "rebuilding", {"rebuilding"},
                           "rebuild_destroy", ErrorOutPc(cr))
        /\ UNCHANGED <<quota, migration, tracker, lock, bdms>>

\* network info, volume detach loop, driver.destroy (unless recreate)
rebuild_destroy(c) ==
    /\ calls[c].wf = "rebuild_instance" /\ calls[c].pc = "rebuild_destroy"
    /\ external_call(c, "rebuild_block_device_mapping", TRUE)
    /\ UNCHANGED <<instances, quota, migration, tracker, lock, bdms>>

\* task_state=REBUILD_BLOCK_DEVICE_MAPPING expecting REBUILDING
rebuild_block_device_mapping(c) ==
    LET cr == calls[c]
    IN  /\ cr.wf = "rebuild_instance" /\ cr.pc = "rebuild_block_device_mapping"
        /\ instance_update(c, Keep, "rebuild_block_device_mapping", {"rebuilding"},
                           "rebuild_prep_block_device", ErrorOutPc(cr))
        /\ UNCHANGED <<quota, migration, tracker, lock, bdms>>

\* _prep_block_device
rebuild_prep_block_device(c) ==
    /\ calls[c].wf = "rebuild_instance" /\ calls[c].pc = "rebuild_prep_block_device"
    /\ external_call(c, "rebuild_spawning", TRUE)
    /\ UNCHANGED <<instances, quota, migration, tracker, lock, bdms>>

\* task_state=REBUILD_SPAWNING expecting REBUILD_BLOCK_DEVICE_MAPPING
rebuild_spawning(c) ==
    LET cr == calls[c]
    IN  /\ cr.wf = "rebuild_instance" /\ cr.pc = "rebuild_spawning"
        /\ instance_update(c, Keep, "rebuild_spawning",
                           {"rebuild_block_device_mapping"},
                           "rebuild_spawn", ErrorOutPc(cr))
        /\ UNCHANGED <<quota, migration, tracker, lock, bdms>>

\* driver.spawn
rebuild_spawn(c) ==
    /\ calls[c].wf = "rebuild_instance" /\ calls[c].pc = "rebuild_spawn"
    /\ \E ok \in BOOLEAN :
        calls' = [calls EXCEPT ![c] =
            IF ok THEN [@ EXCEPT !.pc = "rebuild_active",
                                 !.invoked = @ \cup {"spawn"}]
            ELSE RaiseInErrorOut(@, "Error")]
    /\ UNCHANGED <<instances, quota, migration, tracker, lock, bdms>>

\* vm_state=ACTIVE, task_state=None expecting REBUILD_SPAWNING; an instance
\* that was STOPPED goes on to be stopped again
rebuild_active(c) ==
    LET cr == calls[c]
    IN  /\ cr.wf = "rebuild_instance" /\ cr.pc = "rebuild_active"
        /\ instance_update(c, "active", None, {"rebuild_spawning"},
                           IF cr.orig_vm_state = "stopped" THEN "rebuild_stopping"
                           ELSE "returned",
                           ErrorOutPc(cr))
        /\ UNCHANGED <<quota, migration, tracker, lock, bdms>>

\* vm_state=ACTIVE, task_state=STOPPING, unconditional
rebuild_stopping(c) ==
    LET cr == calls[c]
    IN  /\ cr.wf = "rebuild_instance" /\ cr.pc = "rebuild_stopping"
        /\ instance_update(c, "active", "stopping", AnyTask,
                           "rebuild_stop_instance", ErrorOutPc(cr))
        /\ UNCHANGED <<quota, migration, tracker, lock, bdms>>

\* self.stop_instance(context, instance['uuid']): the uuid string is passed
\* positionally as `instance`, so wrap_instance_event's
\* keyed_args['instance']['uuid'] raises TypeError before stop_instance's
\* body runs; stop_instance's reverts_task_state finds no kwargs['instance']
\* and writes nothing
rebuild_stop_instance(c) ==
    /\ calls[c].wf = "rebuild_instance" /\ calls[c].pc = "rebuild_stop_instance"
    /\ calls' = [calls EXCEPT ![c] = RaiseInErrorOut(@, "TypeError")]
    /\ UNCHANGED <<instances, quota, migration, tracker, lock, bdms>>

-----------------------------------------------------------------------------
(* Quota reservations *)

NoQuota == [commits |-> 0, rollbacks |-> 0]

Bump(n) == IF n < MaxQuotaOps THEN n + 1 ELSE n

\* _quota_commit / _quota_rollback do nothing without reservations
quota_commit(q, reservations) ==
    IF reservations THEN [q EXCEPT !.commits = Bump(@)] ELSE q

quota_rollback(q, reservations) ==
    IF reservations THEN [q EXCEPT !.rollbacks = Bump(@)] ELSE q

-----------------------------------------------------------------------------
(* _reschedule, shared by the build and by prep_resize *)

\* the task_state _reschedule resets the instance to
RescheduleTaskState(wf) ==
    IF wf = "prep_resize" THEN "resize_prep" ELSE "scheduling"

\* the original exception is re-raised: prep_resize's body runs inside
\* _error_out_instance_on_exception, _run_instance has its own outer handler
NotRescheduled(cr) ==
    IF cr.wf = "prep_resize"
    THEN [cr EXCEPT !.pc = ErrorOutPc(cr)]
    ELSE [cr EXCEPT !.pc = "run_set_error"]

\* _reschedule up to its _instance_update: without retry info or request spec
\* it returns None; else it resets task_state, unconditionally; the update's
\* own failure is caught by the caller, which then does not reschedule
reschedule_update(c) ==
    LET cr == calls[c]
        i == cr.inst
        o == conductor_instance_update(instances[i], AnyTask)
    IN  /\ cr.pc = "reschedule"
        /\ IF ~cr.retry \/ ~cr.request_spec \/ o # "ok"
           THEN /\ calls' = [calls EXCEPT ![c] = NotRescheduled(cr)]
                /\ UNCHANGED instances
           ELSE /\ instances' = [instances EXCEPT ![i] =
                       Updated(@, Keep, RescheduleTaskState(cr.wf))]
                /\ calls' = [calls EXCEPT ![c].pc = "reschedule_cast",
                                          ![c].last_ts = RescheduleTaskState(cr.wf)]
        /\ UNCHANGED <<quota, migration, tracker, lock, bdms>>

\* scheduler_method(context, *method_args): the request goes back to the
\* scheduler, or the call raises and the original exception is re-raised
reschedule_cast(c) ==
    LET cr == calls[c]
    IN  /\ cr.pc = "reschedule_cast"
        /\ \E ok \in BOOLEAN :
            calls' = [calls EXCEPT ![c] =
                IF ok
                THEN Goto([cr EXCEPT !.resubmitted = cr.resubmitted + 1,
                                     !.retry_exc = cr.exc],
                          "returned", instances[cr.inst])
                ELSE NotRescheduled(cr)]
        /\ lock' = IF calls'[c].pc = "returned" THEN Unlock(lock, c, cr.inst)
                   ELSE lock
        /\ UNCHANGED <<instances, quota, migration, tracker, bdms>>

-----------------------------------------------------------------------------
(* ResourceTracker: one per node (every host manages the node of its name). *)
(* tracker[i].build is the usage claimed for instance i by its build,       *)
(* tracker[i].resize the claim of its resize on the destination node.       *)

NoClaim == [node |-> "none", flavor |-> "none", state |-> "none"]

ClaimKinds == {"build", "resize"}

RECURSIVE SumOver(_, _, _)
SumOver(S, f, trk) ==
    IF S = {} THEN 0
    ELSE LET x == CHOOSE y \in S : TRUE
         IN  (IF f = "vcpus" THEN FlavorVcpus(trk[x[1]][x[2]].flavor)
              ELSE FlavorMemoryMb(trk[x[1]][x[2]].flavor))
             + SumOver(S \ {x}, f, trk)

\* the claims and usages tracker trk counts on node n
Held(trk, n) ==
    {x \in Instances \X ClaimKinds :
        trk[x[1]][x[2]].state # "none" /\ trk[x[1]][x[2]].node = n}

UsedVcpus(trk, n) == SumOver(Held(trk, n), "vcpus", trk)
UsedMemoryMb(trk, n) == SumOver(Held(trk, n), "memory_mb", trk)

\* a claim test that lets every shape in
ClaimFits_unlimited(trk, n, f) ==
    UsedVcpus(trk, n) >= 0 /\ FlavorVcpus(f) >= 0

\* the test of a claim: the shape fits into what node n has free
ClaimFits(trk, n, f) ==
    /\ UsedVcpus(trk, n) + FlavorVcpus(f) <= NodeVcpus
    /\ UsedMemoryMb(trk, n) + FlavorMemoryMb(f) <= NodeMemoryMb

\* rt.instance_claim / rt.resize_claim granted: the claim is held
claim_granted(trk, i, kind, n, f) ==
    [trk EXCEPT ![i][kind] = [node |-> n, flavor |-> f, state |-> "claimed"]]

\* the claim's scope is left normally: the claim stays as usage
claim_confirmed(trk, i, kind) ==
    [trk EXCEPT ![i][kind].state = IF @ = "claimed" THEN "confirmed" ELSE @]

\* the claim's scope is left by an exception: the claim is given back
claim_reverted(trk, i, kind) == [trk EXCEPT ![i][kind] = NoClaim]

\* rt.confirm_resize: the instance's usage is now the resize's, on its node
resize_confirmed(trk, i) ==
    IF trk[i].resize.state = "none" THEN trk
    ELSE [trk EXCEPT ![i].build = [trk[i].resize EXCEPT !.state = "confirmed"],
                     ![i].resize = NoClaim]

\* update_usage for an instance that became DELETED: its usage is released
usage_released(trk, i) == [trk EXCEPT ![i] = [build |-> NoClaim, resize |-> NoClaim]]

\* the trackers count no resize claim whose migration is no longer followed
Synced == \A i \in Instances : tracker[i].resize.state # "none" => migration.status # "none"

\* the periodic task update_available_resource: every tracker recomputes its
\* usage from the instances and the migrations in progress, which drops the
\* resize claims left behind by a resize that failed
update_available_resource ==
    /\ ~Synced
    /\ tracker' = [i \in Instances |-> [tracker[i] EXCEPT !.resize = NoClaim]]
    /\ UNCHANGED <<instances, calls, quota, migration, lock, bdms>>

-----------------------------------------------------------------------------
(* The resize family.  migration is the record of the resize in flight.    *)

\* next is the cast in flight to the next manager method of the chain, with
\* the reservations it carries
NoMigration ==
    [status |-> "none", source |-> "none", dest |-> "none", next |-> "none",
     reservations |-> FALSE]

\* a collaborator call inside a try block of the workflow: it returns, or its
\* exception is in flight at the workflow's own handler failpc
collaborator_call(c, okpc, failpc) ==
    \E ok \in BOOLEAN :
        calls' = [calls EXCEPT ![c] =
            IF ok THEN Goto(@, okpc, instances[@.inst])
            ELSE [@ EXCEPT !.exc = "Error", !.pc = failpc]]

\* _prep_resize up to the claim: an instance without host, or already on this
\* host, is set to ERROR and MigrationError raised; else the new instance type
\* is stashed with an unconditional update.  Every exception goes to
\* _reschedule_resize_or_reraise.
prep_resize_checks(c) ==
    LET cr == calls[c]
        i == cr.inst
        o == conductor_instance_update(instances[i], AnyTask)
        err == IF o = "ok" THEN Updated(instances[i], "error", Keep) ELSE instances[i]
    IN  /\ cr.wf = "prep_resize" /\ cr.pc = "prep_resize_checks"
        /\ IF instances[i].host = "none" \/ instances[i].host = cr.host
           THEN /\ instances' = [instances EXCEPT ![i] = err]
                /\ calls' = [calls EXCEPT ![c].errored = @ \/ (o = "ok"),
                                          ![c].exc = "MigrationError",
                                          ![c].pc = "reschedule"]
           ELSE instance_update(c, Keep, Keep, AnyTask, "prep_resize_claim",
                                "reschedule")
        /\ UNCHANGED <<quota, migration, tracker, lock, bdms>>

\* with rt.resize_claim(...): granted when the new shape fits the node, and
\* then the migration record exists; else ComputeResourcesUnavailable
prep_resize_claim(c) ==
    LET cr == calls[c]
        i == cr.inst
    IN  /\ cr.wf = "prep_resize" /\ cr.pc = "prep_resize_claim"
        /\ IF ClaimFits(tracker, cr.node, cr.shape)
           THEN /\ tracker' = claim_granted(tracker, i, "resize", cr.node, cr.shape)
                /\ migration' = [NoMigration EXCEPT !.status = "pre-migrating",
                                     !.source = instances[i].host,
                                     !.dest = cr.host]
                /\ calls' = [calls EXCEPT ![c].pc = "prep_resize_cast",
                                          ![c].claim = "claimed"]
           ELSE /\ UNCHANGED <<tracker, migration>>
                /\ calls' = [calls EXCEPT ![c].pc = "reschedule",
                                          ![c].claim = "refused",
                                          ![c].exc = "ComputeResourcesUnavailable"]
        /\ UNCHANGED <<instances, quota, lock, bdms>>

\* the body of the claim: compute_rpcapi.resize_instance.  Leaving the body
\* normally keeps the claim; an exception gives it back before the handler runs
prep_resize_cast(c) ==
    LET cr == calls[c]
    IN  /\ cr.wf = "prep_resize" /\ cr.pc = "prep_resize_cast"
        /\ \E ok \in BOOLEAN :
            IF ok
            THEN /\ tracker' = claim_confirmed(tracker, cr.inst, "resize")
                 /\ migration' = [migration EXCEPT !.next = "resize_instance",
                                       !.reservations = cr.reservations]
                 /\ calls' = [calls EXCEPT ![c].claim = "confirmed",
                                           ![c].pc = "prep_resize_end"]
            ELSE /\ tracker' = claim_reverted(tracker, cr.inst, "resize")
                 /\ UNCHANGED migration
                 /\ calls' = [calls EXCEPT ![c].pc = "reschedule",
                                           ![c].claim = "reverted",
                                           ![c].exc = "Error"]
        /\ UNCHANGED <<instances, quota, lock, bdms>>

\* the finally clause of prep_resize once the request has been handed on: the
\* "resize.prep.end" notification, still inside
\* _error_out_instance_on_exception
prep_resize_end(c) ==
    LET cr == calls[c]
    IN  /\ cr.wf = "prep_resize" /\ cr.pc = "prep_resize_end"
        /\ \E ok \in BOOLEAN :
            calls' = [calls EXCEPT ![c] =
                IF ok THEN Goto(cr, "returned", instances[cr.inst])
                ELSE RaiseInErrorOut(cr, "Error")]
        /\ UNCHANGED <<instances, quota, migration, tracker, lock, bdms>>

\* resize_instance: migration 'migrating', then task_state=RESIZE_MIGRATING
\* expecting RESIZE_PREP
resize_start(c) ==
    LET cr == calls[c]
    IN  /\ cr.wf = "resize_instance" /\ cr.pc = "resize_start"
        /\ migration' = [migration EXCEPT !.status = "migrating"]
        /\ instance_update(c, Keep, "resize_migrating", {"resize_prep"},
                           "resize_driver", ErrorOutPc(cr))
        /\ UNCHANGED <<quota, tracker, lock, bdms>>

\* driver.migrate_disk_and_power_off, _terminate_volume_connections,
\* network_migrate_instance_start
resize_driver(c) ==
    /\ calls[c].wf = "resize_instance" /\ calls[c].pc = "resize_driver"
    /\ \E ok \in BOOLEAN :
        calls' = [calls EXCEPT ![c] =
            IF ok THEN Goto(@, "resize_migrated", instances[@.inst])
            ELSE RaiseInErrorOut([@ EXCEPT !.driver_failed = TRUE], "Error")]
    /\ UNCHANGED <<instances, quota, migration, tracker, lock, bdms>>

\* migration 'post-migrating', then host/node=destination,
\* task_state=RESIZE_MIGRATED expecting RESIZE_MIGRATING
resize_migrated(c) ==
    LET cr == calls[c]
        i == cr.inst
        exp == {"resize_migrating"}
        o == conductor_instance_update(instances[i], exp)
        new == [Updated(instances[i], Keep, "resize_migrated")
                    EXCEPT !.host = migration.dest]
    IN  /\ cr.wf = "resize_instance" /\ cr.pc = "resize_migrated"
        /\ migration' = [migration EXCEPT !.status = "post-migrating"]
        /\ IF o = "ok"
           THEN /\ instances' = [instances EXCEPT ![i] = new]
                /\ calls' = [calls EXCEPT ![c].pc = "resize_cast",
                                          ![c].last_ts = "resize_migrated"]
           ELSE /\ UNCHANGED instances
                /\ calls' = [calls EXCEPT ![c] = RaiseInErrorOut(cr, o)]
        /\ UNCHANGED <<quota, tracker, lock, bdms>>

\* compute_rpcapi.finish_resize: the method returns with task_state
\* RESIZE_MIGRATED, the destination host goes on
resize_cast(c) ==
    LET cr == calls[c]
    IN  /\ cr.wf = "resize_instance" /\ cr.pc = "resize_cast"
        /\ \E ok \in BOOLEAN :
            IF ok
            THEN /\ migration' = [migration EXCEPT !.next = "finish_resize",
                                       !.reservations = cr.reservations]
                 /\ calls' = [calls EXCEPT ![c].pc = "resize_end"]
            ELSE /\ UNCHANGED migration
                 /\ calls' = [calls EXCEPT ![c] = RaiseInErrorOut(cr, "Error")]
        /\ UNCHANGED <<instances, quota, tracker, lock, bdms>>

\* the "resize.end" notification after the cast, still inside
\* _error_out_instance_on_exception
resize_end(c) ==
    LET cr == calls[c]
    IN  /\ cr.wf = "resize_instance" /\ cr.pc = "resize_end"
        /\ \E ok \in BOOLEAN :
            calls' = [calls EXCEPT ![c] =
                IF ok THEN Goto(cr, "returned", instances[cr.inst])
                ELSE RaiseInErrorOut(cr, "Error")]
        /\ UNCHANGED <<instances, quota, migration, tracker, lock, bdms>>

\* _finish_resize: the new instance type is saved with an unconditional update
finish_flavor(c) ==
    /\ calls[c].wf = "finish_resize" /\ calls[c].pc = "finish_flavor"
    /\ instance_update(c, Keep, Keep, AnyTask, "finish_resize_finish",
                       "finish_rollback")
    /\ UNCHANGED <<quota, migration, tracker, lock, bdms>>

\* task_state=RESIZE_FINISH expecting RESIZE_MIGRATED
finish_resize_finish(c) ==
    /\ calls[c].wf = "finish_resize" /\ calls[c].pc = "finish_resize_finish"
    /\ instance_update(c, Keep, "resize_finish", {"resize_migrated"},
                       "finish_driver", "finish_rollback")
    /\ UNCHANGED <<quota, migration, tracker, lock, bdms>>

\* network setup, block device refresh, driver.finish_migration
finish_driver(c) ==
    /\ calls[c].wf = "finish_resize" /\ calls[c].pc = "finish_driver"
    /\ collaborator_call(c, "finish_resized", "finish_rollback")
    /\ UNCHANGED <<instances, quota, migration, tracker, lock, bdms>>

\* a finish that marks the instance RESIZED and leaves the migration as it is
finish_resized_without_status(c) ==
    /\ calls[c].wf = "finish_resize" /\ calls[c].pc = "finish_resized"
    /\ UNCHANGED migration
    /\ instance_update(c, "resized", None, {"resize_finish"},
                       "finish_commit", "finish_rollback")
    /\ UNCHANGED <<quota, tracker, lock, bdms>>

\* migration 'finished', then vm_state=RESIZED, task_state=None expecting
\* RESIZE_FINISH
finish_resized(c) ==
    /\ calls[c].wf = "finish_resize" /\ calls[c].pc = "finish_resized"
    /\ migration' = [migration EXCEPT !.status = "finished"]
    /\ instance_update(c, "resized", None, {"resize_finish"},
                       "finish_commit", "finish_rollback")
    /\ UNCHANGED <<quota, tracker, lock, bdms>>

\* _quota_commit, still inside finish_resize's try block
finish_commit(c) ==
    LET cr == calls[c]
    IN  /\ cr.wf = "finish_resize" /\ cr.pc = "finish_commit"
        /\ \E ok \in BOOLEAN :
            IF ok
            THEN /\ quota' = quota_commit(quota, cr.reservations)
                 /\ calls' = [calls EXCEPT ![c] =
                        Goto(cr, "returned", instances[cr.inst])]
            ELSE /\ cr.reservations
                 /\ UNCHANGED quota
                 /\ calls' = [calls EXCEPT ![c].exc = "QuotaError",
                                           ![c].pc = "finish_rollback"]
        /\ UNCHANGED <<instances, migration, tracker, lock, bdms>>

\* finish_resize's handler: _quota_rollback, its own failure only logged
finish_rollback(c) ==
    LET cr == calls[c]
    IN  /\ cr.wf = "finish_resize" /\ cr.pc = "finish_rollback"
        /\ \E ok \in BOOLEAN :
            /\ quota' = IF ok THEN quota_rollback(quota, cr.reservations) ELSE quota
            /\ calls' = [calls EXCEPT ![c].pc = "finish_set_error",
                                      ![c].rollback =
                                          IF ~cr.reservations THEN "none"
                                          ELSE IF ok THEN "done" ELSE "failed"]
        /\ UNCHANGED <<instances, migration, tracker, lock, bdms>>

\* finish_resize's handler: _set_instance_error_state, then re-raise
finish_set_error(c) ==
    /\ calls[c].wf = "finish_resize" /\ calls[c].pc = "finish_set_error"
    /\ set_instance_error_state(c, Escape(calls[c].wf, calls[c].exc))
    /\ UNCHANGED <<quota, migration, tracker, lock, bdms>>

\* confirm_resize: the stashed instance types are dropped with an
\* unconditional update
confirm_sysmeta(c) ==
    LET cr == calls[c]
    IN  /\ cr.wf = "confirm_resize" /\ cr.pc = "confirm_sysmeta"
        /\ instance_update(c, Keep, Keep, AnyTask, "confirm_driver", ErrorOutPc(cr))
        /\ UNCHANGED <<quota, migration, tracker, lock, bdms>>

\* source-host network teardown, driver.confirm_migration
confirm_driver(c) ==
    /\ calls[c].wf = "confirm_resize" /\ calls[c].pc = "confirm_driver"
    /\ external_call(c, "confirm_commit", TRUE)
    /\ UNCHANGED <<instances, quota, migration, tracker, lock, bdms>>

\* rt.confirm_resize, then _quota_commit
confirm_commit(c) ==
    LET cr == calls[c]
    IN  /\ cr.wf = "confirm_resize" /\ cr.pc = "confirm_commit"
        /\ tracker' = resize_confirmed(tracker, cr.inst)
        /\ \E ok \in BOOLEAN :
            IF ok
            THEN /\ quota' = quota_commit(quota, cr.reservations)
                 /\ calls' = [calls EXCEPT ![c] =
                        Goto(cr, "returned", instances[cr.inst])]
            ELSE /\ cr.reservations
                 /\ UNCHANGED quota
                 /\ calls' = [calls EXCEPT ![c] = RaiseInErrorOut(cr, "QuotaError")]
        /\ UNCHANGED <<instances, migration, lock, bdms>>

\* revert_resize: destination network teardown, driver.destroy,
\* _terminate_volume_connections
revert_driver(c) ==
    /\ calls[c].wf = "revert_resize" /\ calls[c].pc = "revert_driver"
    /\ external_call(c, "revert_tracker", TRUE)
    /\ UNCHANGED <<instances, quota, migration, tracker, lock, bdms>>

\* rt.revert_resize(status='reverted_dest'), then
\* compute_rpcapi.finish_revert_resize; no instance update at all
revert_tracker(c) ==
    LET cr == calls[c]
    IN  /\ cr.wf = "revert_resize" /\ cr.pc = "revert_tracker"
        /\ tracker' = claim_reverted(tracker, cr.inst, "resize")
        /\ \E ok \in BOOLEAN :
            IF ok
            THEN /\ migration' = [migration EXCEPT !.status = "reverted_dest",
                                       !.next = "finish_revert_resize",
                                       !.reservations = cr.reservations]
                 /\ calls' = [calls EXCEPT ![c] =
                        Goto(cr, "returned", instances[cr.inst])]
            ELSE /\ migration' = [migration EXCEPT !.status = "reverted_dest"]
                 /\ calls' = [calls EXCEPT ![c] = RaiseInErrorOut(cr, "Error")]
        /\ UNCHANGED <<instances, quota, lock, bdms>>

\* finish_revert_resize: the old instance type and host/node=source are
\* written with an unconditional update
frr_update(c) ==
    LET cr == calls[c]
        i == cr.inst
        o == conductor_instance_update(instances[i], AnyTask)
    IN  /\ cr.wf = "finish_revert_resize" /\ cr.pc = "frr_update"
        /\ IF o = "ok"
           THEN /\ instances' = [instances EXCEPT ![i].host = migration.source]
                /\ calls' = [calls EXCEPT ![c].pc = "frr_driver"]
           ELSE /\ UNCHANGED instances
                /\ calls' = [calls EXCEPT ![c] = RaiseInErrorOut(cr, o)]
        /\ UNCHANGED <<quota, migration, tracker, lock, bdms>>

\* source network setup, block device refresh, driver.finish_revert_migration
frr_driver(c) ==
    /\ calls[c].wf = "finish_revert_resize" /\ calls[c].pc = "frr_driver"
    /\ external_call(c, "frr_launched", TRUE)
    /\ UNCHANGED <<instances, quota, migration, tracker, lock, bdms>>

\* launched_at, expecting RESIZE_REVERTING
frr_launched(c) ==
    LET cr == calls[c]
    IN  /\ cr.wf = "finish_revert_resize" /\ cr.pc = "frr_launched"
        /\ instance_update(c, Keep, Keep, {"resize_reverting"}, "frr_active",
                           ErrorOutPc(cr))
        /\ UNCHANGED <<quota, migration, tracker, lock, bdms>>

\* network_migrate_instance_finish, then vm_state=ACTIVE, task_state=None,
\* unconditional
frr_active(c) ==
    LET cr == calls[c]
    IN  /\ cr.wf = "finish_revert_resize" /\ cr.pc = "frr_active"
        /\ instance_update(c, "active", None, AnyTask, "frr_commit", ErrorOutPc(cr))
        /\ UNCHANGED <<quota, migration, tracker, lock, bdms>>

\* rt.revert_resize, then _quota_commit
frr_commit(c) ==
    LET cr == calls[c]
    IN  /\ cr.wf = "finish_revert_resize" /\ cr.pc = "frr_commit"
        /\ tracker' = claim_reverted(tracker, cr.inst, "resize")
        /\ migration' = [migration EXCEPT !.status = "reverted"]
        /\ \E ok \in BOOLEAN :
            IF ok
            THEN /\ quota' = quota_commit(quota, cr.reservations)
                 /\ calls' = [calls EXCEPT ![c] =
                        Goto(cr, "returned", instances[cr.inst])]
            ELSE /\ cr.reservations
                 /\ UNCHANGED quota
                 /\ calls' = [calls EXCEPT ![c] = RaiseInErrorOut(cr, "QuotaError")]
        /\ UNCHANGED <<instances, lock, bdms>>

-----------------------------------------------------------------------------
(* terminate_instance and _delete_instance.  _delete_instance is also run   *)
(* by the periodic task _reclaim_queued_deletes.                           *)

DeleteWorkflows == {"terminate_instance", "_reclaim_queued_deletes"}

\* do_terminate_instance is entered: lockutils.synchronized(instance['uuid'])
terminate_lock(c) ==
    LET cr == calls[c]
    IN  /\ cr.wf = "terminate_instance" /\ cr.pc = "terminate_lock"
        /\ lock[cr.inst] = "none"
        /\ lock' = [lock EXCEPT ![cr.inst] = c]
        /\ calls' = [calls EXCEPT ![c].pc = "shutdown_network"]
        /\ UNCHANGED <<instances, quota, migration, tracker, bdms>>

\* _shutdown_instance: _deallocate_network; its failure sets the instance to
\* ERROR and is re-raised
shutdown_network(c) ==
    LET cr == calls[c]
    IN  /\ cr.wf \in DeleteWorkflows /\ cr.pc = "shutdown_network"
        /\ \E ok \in BOOLEAN :
            calls' = [calls EXCEPT ![c] =
                IF ok THEN [cr EXCEPT !.pc = "shutdown_destroy"]
                ELSE [cr EXCEPT !.pc = "shutdown_set_error", !.exc = "Error"]]
        /\ UNCHANGED <<instances, quota, migration, tracker, lock, bdms>>

\* the handler of the failed deallocation: _set_instance_error_state, then the
\* exception leaves _delete_instance and, being neither
\* InstanceTerminationFailure nor InstanceNotFound, the manager method
shutdown_set_error(c) ==
    LET cr == calls[c]
    IN  /\ cr.wf \in DeleteWorkflows /\ cr.pc = "shutdown_set_error"
        /\ set_instance_error_state(c, "raised")
        /\ lock' = Unlock(lock, c, cr.inst)
        /\ UNCHANGED <<quota, migration, tracker, bdms>>

\* what driver.destroy can do
DestroyOutcomes == {"ok", "InstanceTerminationFailure", "InstanceNotFound", "Error"}

\* driver.destroy.  do_terminate_instance catches InstanceTerminationFailure
\* (the instance is then set to ERROR) and InstanceNotFound (logged); the
\* periodic task catches nothing
shutdown_destroy(c) ==
    LET cr == calls[c]
        irec == instances[cr.inst]
    IN  /\ cr.wf \in DeleteWorkflows /\ cr.pc = "shutdown_destroy"
        /\ \E o \in DestroyOutcomes :
            calls' = [calls EXCEPT ![c] =
                IF o = "ok" THEN [cr EXCEPT !.pc = "shutdown_volumes"]
                ELSE IF cr.wf = "terminate_instance" /\ o = "InstanceTerminationFailure"
                THEN [cr EXCEPT !.pc = "terminate_set_error", !.exc = o]
                ELSE IF cr.wf = "terminate_instance" /\ o = "InstanceNotFound"
                THEN Goto([cr EXCEPT !.exc = o], "returned", irec)
                ELSE Goto([cr EXCEPT !.exc = o], "raised", irec)]
        /\ lock' = IF calls'[c].pc \in Terminal THEN Unlock(lock, c, cr.inst)
                   ELSE lock
        /\ UNCHANGED <<instances, quota, migration, tracker, bdms>>

\* the handler of InstanceTerminationFailure: _set_instance_error_state; the
\* manager method returns normally
terminate_set_error(c) ==
    LET cr == calls[c]
    IN  /\ cr.wf = "terminate_instance" /\ cr.pc = "terminate_set_error"
        /\ set_instance_error_state(c, "returned")
        /\ lock' = Unlock(lock, c, cr.inst)
        /\ UNCHANGED <<quota, migration, tracker, bdms>>

\* the volume loop of _shutdown_instance (terminate_connection and detach for
\* every volume mapping; only DiskNotFound and VolumeNotFound are tolerated),
\* then _cleanup_volumes, whose failure is ignored
shutdown_volumes(c) ==
    LET cr == calls[c]
        irec == instances[cr.inst]
    IN  /\ cr.wf \in DeleteWorkflows /\ cr.pc = "shutdown_volumes"
        /\ \E ok \in BOOLEAN :
            /\ ~ok => bdms[cr.inst] > 0
            /\ calls' = [calls EXCEPT ![c] =
                   IF ok THEN [cr EXCEPT !.pc = "delete_update"]
                   ELSE Goto([cr EXCEPT !.exc = "VolumeError"], "raised", irec)]
        /\ lock' = IF calls'[c].pc \in Terminal THEN Unlock(lock, c, cr.inst)
                   ELSE lock
        /\ UNCHANGED <<instances, quota, migration, tracker, bdms>>

\* vm_state=DELETED, task_state=None, unconditional; the tracker drops the
\* usage of a deleted instance.  InstanceNotFound ends terminate_instance
\* normally and the periodic task with the exception
delete_update(c) ==
    LET cr == calls[c]
        i == cr.inst
        o == conductor_instance_update(instances[i], AnyTask)
    IN  /\ cr.wf \in DeleteWorkflows /\ cr.pc = "delete_update"
        /\ IF o = "ok"
           THEN /\ instances' = [instances EXCEPT ![i] = Updated(@, "deleted", None)]
                /\ tracker' = usage_released(tracker, i)
                /\ calls' = [calls EXCEPT ![c].pc = "instance_destroy",
                                          ![c].last_ts = None]
                /\ UNCHANGED lock
           ELSE /\ UNCHANGED <<instances, tracker>>
                /\ calls' = [calls EXCEPT ![c] =
                       Goto([cr EXCEPT !.exc = o],
                            IF cr.wf = "terminate_instance" THEN "returned"
                            ELSE "raised", instances[i])]
                /\ lock' = Unlock(lock, c, i)
        /\ UNCHANGED <<quota, migration, bdms>>

\* conductor_api.instance_destroy and block_device_mapping_destroy; the
\* periodic task then goes on with the next instance of its list
instance_destroy(c) ==
    LET cr == calls[c]
        i == cr.inst
        after == [cr EXCEPT !.reclaimed = IF cr.wf = "_reclaim_queued_deletes"
                                          THEN @ \cup {i} ELSE @]
    IN  /\ cr.wf \in DeleteWorkflows /\ cr.pc = "instance_destroy"
        /\ instances' = [instances EXCEPT ![i].deleted = TRUE]
        /\ bdms' = [bdms EXCEPT ![i] = 0]
        /\ calls' = [calls EXCEPT ![c] =
               IF cr.todo # {} THEN [after EXCEPT !.pc = "reclaim_next"]
               ELSE Goto(after, "returned", instances'[i])]
        /\ lock' = Unlock(lock, c, i)
        /\ UNCHANGED <<quota, migration, tracker>>

\* the loop of _reclaim_queued_deletes: _delete_instance for the next
\* instance that was SOFT_DELETED and old enough when the list was read
reclaim_next(c) ==
    LET cr == calls[c]
    IN  /\ cr.wf = "_reclaim_queued_deletes" /\ cr.pc = "reclaim_next"
        /\ \E i \in cr.todo :
               calls' = [calls EXCEPT ![c] =
                   [cr EXCEPT !.inst = i, !.todo = @ \ {i},
                              !.pc = "shutdown_network",
                              !.entry_ts = instances[i].task_state]]
        /\ UNCHANGED <<instances, quota, migration, tracker, lock, bdms>>

-----------------------------------------------------------------------------
(* run_instance / _run_instance *)

\* do_run_instance entered without waiting for the holder of the lock
run_lock_without_wait(c) ==
    LET cr == calls[c]
    IN  /\ cr.wf = "run_instance" /\ cr.pc = "run_lock"
        /\ lock' = [lock EXCEPT ![cr.inst] = c]
        /\ calls' = [calls EXCEPT ![c].pc = "run_checks"]
        /\ UNCHANGED <<instances, quota, migration, tracker, bdms>>

\* do_run_instance is entered: lockutils.synchronized(instance['uuid'])
run_lock(c) ==
    LET cr == calls[c]
    IN  /\ cr.wf = "run_instance" /\ cr.pc = "run_lock"
        /\ lock[cr.inst] = "none"
        /\ lock' = [lock EXCEPT ![cr.inst] = c]
        /\ calls' = [calls EXCEPT ![c].pc = "run_checks"]
        /\ UNCHANGED <<instances, quota, migration, tracker, bdms>>

\* _check_instance_exists and _check_image_size: either may raise, which the
\* outer handler of _run_instance turns into ERROR
run_checks(c) ==
    LET cr == calls[c]
    IN  /\ cr.wf = "run_instance" /\ cr.pc = "run_checks"
        /\ \E ok \in BOOLEAN :
            calls' = [calls EXCEPT ![c] =
                IF ok THEN [cr EXCEPT !.pc = "start_building"]
                ELSE [cr EXCEPT !.pc = "run_set_error", !.exc = "Error"]]
        /\ UNCHANGED <<instances, quota, migration, tracker, lock, bdms>>

\* _start_building: vm_state=BUILDING, task_state=None expecting SCHEDULING or
\* None
start_building(c) ==
    /\ calls[c].wf = "run_instance" /\ calls[c].pc = "start_building"
    /\ instance_update(c, "building", None, {"scheduling", None},
                       "instance_claim", "run_set_error")
    /\ UNCHANGED <<quota, migration, tracker, lock, bdms>>

\* a claim whose refusal is ignored: the body runs without a claim
instance_claim_ignoring_refusal(c) ==
    LET cr == calls[c]
    IN  /\ cr.wf = "run_instance" /\ cr.pc = "instance_claim"
        /\ IF ClaimFits(tracker, cr.node, cr.shape)
           THEN /\ tracker' = claim_granted(tracker, cr.inst, "build",
                                            cr.node, cr.shape)
                /\ calls' = [calls EXCEPT ![c].pc = "allocate_network_update",
                                          ![c].claim = "claimed"]
           ELSE /\ UNCHANGED tracker
                /\ calls' = [calls EXCEPT ![c].pc = "allocate_network_update",
                                          ![c].claim = "refused"]
        /\ UNCHANGED <<instances, quota, migration, lock, bdms>>

\* with rt.instance_claim(context, instance, limits): granted when the
\* instance's shape fits the node, else ComputeResourcesUnavailable goes to
\* _reschedule_or_reraise
instance_claim(c) ==
    LET cr == calls[c]
    IN  /\ cr.wf = "run_instance" /\ cr.pc = "instance_claim"
        /\ IF ClaimFits(tracker, cr.node, cr.shape)
           THEN /\ tracker' = claim_granted(tracker, cr.inst, "build",
                                            cr.node, cr.shape)
                /\ calls' = [calls EXCEPT ![c].pc = "allocate_network_update",
                                          ![c].claim = "claimed"]
           ELSE /\ UNCHANGED tracker
                /\ calls' = [calls EXCEPT ![c].pc = "reschedule_or_reraise",
                                          ![c].claim = "refused",
                                          ![c].exc = "ComputeResourcesUnavailable",
                                          ![c].build_exc = "ComputeResourcesUnavailable"]
        /\ UNCHANGED <<instances, quota, migration, lock, bdms>>

\* exception e leaves the body of the claim while the store shows task_state
\* actual: the claim has been given back when the handlers of _run_instance
\* run.  InstanceNotFound deallocates the network and is re-raised;
\* UnexpectedTaskStateError is swallowed when the instance is being deleted;
\* anything else goes to _reschedule_or_reraise.
ClaimedRaise(cr, e, actual, irec) ==
    LET r == [cr EXCEPT !.exc = e, !.build_exc = e, !.claim = "reverted"]
    IN  IF e = "InstanceNotFound" THEN [r EXCEPT !.pc = "run_notfound_dealloc"]
        ELSE IF e = "UnexpectedTaskStateError"
        THEN IF actual = "deleting" THEN Goto(r, "returned", irec)
             ELSE [r EXCEPT !.pc = "run_set_error"]
        ELSE [r EXCEPT !.pc = "reschedule_or_reraise"]

\* an _instance_update inside the body of the claim
claimed_update(c, vm, ts, expected, okpc) ==
    LET cr == calls[c]
        i == cr.inst
        o == conductor_instance_update(instances[i], expected)
        new == Updated(instances[i], vm, ts)
    IN  IF o = "ok"
        THEN /\ instances' = [instances EXCEPT ![i] = new]
             /\ calls' = [calls EXCEPT ![c].pc = okpc, ![c].last_ts = ts]
             /\ UNCHANGED <<tracker, lock>>
        ELSE /\ UNCHANGED instances
             /\ tracker' = claim_reverted(tracker, i, "build")
             /\ calls' = [calls EXCEPT ![c] =
                    ClaimedRaise(cr, o, instances[i].task_state, instances[i])]
             /\ lock' = IF calls'[c].pc = "returned" THEN Unlock(lock, c, i)
                        ELSE lock

\* a collaborator call whose exception leaves the body with the claim kept
claimed_call_keeping_claim(c, okpc) ==
    LET cr == calls[c]
        i == cr.inst
    IN  /\ \E ok \in BOOLEAN :
            calls' = [calls EXCEPT ![c] =
                IF ok THEN [cr EXCEPT !.pc = okpc, !.invoked = @ \cup {cr.pc}]
                ELSE [ClaimedRaise([cr EXCEPT !.invoked = @ \cup {cr.pc}],
                                   "Error", instances[i].task_state,
                                   instances[i])
                      EXCEPT !.claim = "claimed"]]
        /\ UNCHANGED tracker

\* a collaborator call inside the body of the claim
claimed_call(c, okpc) ==
    LET cr == calls[c]
        i == cr.inst
    IN  \E ok \in BOOLEAN :
            IF ok
            THEN /\ calls' = [calls EXCEPT ![c].pc = okpc,
                                           ![c].invoked = @ \cup {cr.pc}]
                 /\ UNCHANGED tracker
            ELSE /\ calls' = [calls EXCEPT ![c] =
                        ClaimedRaise([cr EXCEPT !.invoked = @ \cup {cr.pc}],
                                     "Error", instances[i].task_state,
                                     instances[i])]
                 /\ tracker' = claim_reverted(tracker, i, "build")

\* _allocate_network: task_state=NETWORKING expecting None
allocate_network_update(c) ==
    /\ calls[c].wf = "run_instance" /\ calls[c].pc = "allocate_network_update"
    /\ claimed_update(c, "building", "networking", {None}, "allocate_network")
    /\ UNCHANGED <<quota, migration, bdms>>

\* network_api.allocate_for_instance
allocate_network(c) ==
    /\ calls[c].wf = "run_instance" /\ calls[c].pc = "allocate_network"
    /\ claimed_call(c, "block_device_mapping")
    /\ UNCHANGED <<instances, quota, migration, lock, bdms>>

\* task_state=BLOCK_DEVICE_MAPPING, with no expected task state
block_device_mapping(c) ==
    /\ calls[c].wf = "run_instance" /\ calls[c].pc = "block_device_mapping"
    /\ claimed_update(c, "building", "block_device_mapping", AnyTask,
                      "prep_block_device")
    /\ UNCHANGED <<quota, migration, bdms>>

\* _prep_block_device
prep_block_device(c) ==
    /\ calls[c].wf = "run_instance" /\ calls[c].pc = "prep_block_device"
    /\ claimed_call(c, "spawning")
    /\ UNCHANGED <<instances, quota, migration, lock, bdms>>

\* _spawn: task_state=SPAWNING expecting BLOCK_DEVICE_MAPPING
spawning(c) ==
    /\ calls[c].wf = "run_instance" /\ calls[c].pc = "spawning"
    /\ claimed_update(c, "building", "spawning", {"block_device_mapping"}, "spawn")
    /\ UNCHANGED <<quota, migration, bdms>>

\* driver.spawn
spawn(c) ==
    /\ calls[c].wf = "run_instance" /\ calls[c].pc = "spawn"
    /\ claimed_call(c, "spawn_active")
    /\ UNCHANGED <<instances, quota, migration, lock, bdms>>

\* vm_state=ACTIVE, task_state=None expecting SPAWNING; with it the body of
\* the claim is left and the claim stays as the instance's usage
spawn_active(c) ==
    LET cr == calls[c]
        i == cr.inst
        exp == {"spawning"}
        o == conductor_instance_update(instances[i], exp)
    IN  /\ cr.wf = "run_instance" /\ cr.pc = "spawn_active"
        /\ IF o = "ok"
           THEN /\ instances' = [instances EXCEPT ![i] = Updated(@, "active", None)]
                /\ tracker' = claim_confirmed(tracker, i, "build")
                /\ calls' = [calls EXCEPT ![c].pc = "run_success",
                                          ![c].last_ts = None,
                                          ![c].claim = "confirmed"]
                /\ UNCHANGED lock
           ELSE claimed_update(c, "active", None, exp, "run_success")
        /\ UNCHANGED <<quota, migration, bdms>>

\* the build's else branch: _update_access_ip and the create.end
\* notification; an exception goes to the outer handler
run_success(c) ==
    LET cr == calls[c]
    IN  /\ cr.wf = "run_instance" /\ cr.pc = "run_success"
        /\ \E ok \in BOOLEAN :
            calls' = [calls EXCEPT ![c] =
                IF ok THEN Goto(cr, "returned", instances[cr.inst])
                ELSE [cr EXCEPT !.pc = "run_set_error", !.exc = "Error"]]
        /\ lock' = IF calls'[c].pc = "returned" THEN Unlock(lock, c, cr.inst)
                   ELSE lock
        /\ UNCHANGED <<instances, quota, migration, tracker, bdms>>

\* the InstanceNotFound handler: _deallocate_network, its failure logged, then
\* InstanceNotFound is re-raised to the outer handler
run_notfound_dealloc(c) ==
    /\ calls[c].wf = "run_instance" /\ calls[c].pc = "run_notfound_dealloc"
    /\ calls' = [calls EXCEPT ![c].pc = "run_set_error",
                              ![c].deallocated = TRUE]
    /\ UNCHANGED <<instances, quota, migration, tracker, lock, bdms>>

\* _reschedule_or_reraise going on to _reschedule after a failed deallocation
reschedule_or_reraise_after_failed_dealloc(c) ==
    LET cr == calls[c]
    IN  /\ cr.wf = "run_instance" /\ cr.pc = "reschedule_or_reraise"
        /\ \E ok \in BOOLEAN :
            calls' = [calls EXCEPT ![c] =
                IF ok THEN [cr EXCEPT !.pc = "reschedule", !.deallocated = TRUE]
                ELSE [cr EXCEPT !.pc = "reschedule", !.dealloc_failed = TRUE]]
        /\ UNCHANGED <<instances, quota, migration, tracker, lock, bdms>>

\* _reschedule_or_reraise whose failed deallocation passes the outer handler
\* of _run_instance by
reschedule_or_reraise_past_handler(c) ==
    LET cr == calls[c]
    IN  /\ cr.wf = "run_instance" /\ cr.pc = "reschedule_or_reraise"
        /\ \E ok \in BOOLEAN :
            calls' = [calls EXCEPT ![c] =
                IF ok THEN [cr EXCEPT !.pc = "reschedule", !.deallocated = TRUE]
                ELSE [cr EXCEPT !.pc = "reverts_task_state",
                                !.exc = "NetworkDeallocationError",
                                !.dealloc_failed = TRUE]]
        /\ UNCHANGED <<instances, quota, migration, tracker, lock, bdms>>

\* _reschedule_or_reraise up to _reschedule: the fault is recorded and the
\* network deallocated; a failed deallocation is raised instead of the build
\* error and nothing is rescheduled
reschedule_or_reraise(c) ==
    LET cr == calls[c]
    IN  /\ cr.wf = "run_instance" /\ cr.pc = "reschedule_or_reraise"
        /\ \E ok \in BOOLEAN :
            calls' = [calls EXCEPT ![c] =
                IF ok THEN [cr EXCEPT !.pc = "reschedule", !.deallocated = TRUE]
                ELSE [cr EXCEPT !.pc = "run_set_error",
                                !.exc = "NetworkDeallocationError",
                                !.dealloc_failed = TRUE]]
        /\ UNCHANGED <<instances, quota, migration, tracker, lock, bdms>>

\* an outer handler that re-raises without _set_instance_error_state
run_set_error_without_update(c) ==
    LET cr == calls[c]
    IN  /\ cr.wf = "run_instance" /\ cr.pc = "run_set_error"
        /\ calls' = [calls EXCEPT ![c] =
               Goto(cr, Escape(cr.wf, cr.exc), instances[cr.inst])]
        /\ lock' = Unlock(lock, c, cr.inst)
        /\ UNCHANGED <<instances, quota, migration, tracker, bdms>>

\* the outer handler of _run_instance: _set_instance_error_state and re-raise;
\* the exception leaves do_run_instance and reaches reverts_task_state
run_set_error(c) ==
    LET cr == calls[c]
    IN  /\ cr.wf = "run_instance" /\ cr.pc = "run_set_error"
        /\ set_instance_error_state(c, Escape(cr.wf, cr.exc))
        /\ lock' = Unlock(lock, c, cr.inst)
        /\ UNCHANGED <<quota, migration, tracker, bdms>>

-----------------------------------------------------------------------------
(* The volume workflows.  bdms[i] counts the block device mappings of i.   *)

MaxVolumes == 2

\* do_reserve is entered: lockutils.synchronized(instance['uuid'])
reserve_lock(c) ==
    LET cr == calls[c]
    IN  /\ cr.wf = "reserve_block_device_name" /\ cr.pc = "reserve_lock"
        /\ lock[cr.inst] = "none"
        /\ lock' = [lock EXCEPT ![cr.inst] = c]
        /\ calls' = [calls EXCEPT ![c].pc = "reserve_create"]
        /\ UNCHANGED <<instances, quota, migration, tracker, bdms>>

\* the device name is chosen and block_device_mapping_create called, or one
\* of the two raises
reserve_create(c) ==
    LET cr == calls[c]
        i == cr.inst
    IN  /\ cr.wf = "reserve_block_device_name" /\ cr.pc = "reserve_create"
        /\ \E ok \in BOOLEAN :
            IF ok
            THEN /\ bdms' = [bdms EXCEPT ![i] = IF @ < MaxVolumes THEN @ + 1 ELSE @]
                 /\ calls' = [calls EXCEPT ![c] = Goto(cr, "returned", instances[i])]
            ELSE /\ UNCHANGED bdms
                 /\ calls' = [calls EXCEPT ![c] = RaiseOut(cr, "Error", instances[i])]
        /\ lock' = Unlock(lock, c, i)
        /\ UNCHANGED <<instances, quota, migration, tracker>>

\* _attach_volume: initialize_connection, then driver.attach_volume; no lock
\* is taken.  A failure goes to attach_volume's handler.
attach_driver(c) ==
    /\ calls[c].wf = "attach_volume" /\ calls[c].pc = "attach_driver"
    /\ collaborator_call(c, "attach_bdm", "attach_rollback")
    /\ UNCHANGED <<instances, quota, migration, tracker, lock, bdms>>

\* volume_api.attach and block_device_mapping_update_or_create
attach_bdm(c) ==
    LET cr == calls[c]
        i == cr.inst
    IN  /\ cr.wf = "attach_volume" /\ cr.pc = "attach_bdm"
        /\ \E ok \in BOOLEAN :
            IF ok
            THEN /\ bdms' = [bdms EXCEPT ![i] = IF @ = 0 THEN 1 ELSE @]
                 /\ calls' = [calls EXCEPT ![c] = Goto(cr, "returned", instances[i])]
            ELSE /\ UNCHANGED bdms
                 /\ calls' = [calls EXCEPT ![c].pc = "attach_rollback",
                                           ![c].exc = "Error"]
        /\ UNCHANGED <<instances, quota, migration, tracker, lock>>

\* attach_volume's handler: the mapping of the mountpoint is destroyed and the
\* exception re-raised
attach_rollback(c) ==
    LET cr == calls[c]
        i == cr.inst
    IN  /\ cr.wf = "attach_volume" /\ cr.pc = "attach_rollback"
        /\ bdms' = [bdms EXCEPT ![i] = IF @ > 0 THEN @ - 1 ELSE @]
        /\ calls' = [calls EXCEPT ![c] = RaiseOut(cr, cr.exc, instances[i])]
        /\ UNCHANGED <<instances, quota, migration, tracker, lock>>

\* detach_volume: _detach_volume (driver.detach_volume), terminate_connection,
\* volume_api.detach; no lock is taken
detach_driver(c) ==
    /\ calls[c].wf = "detach_volume" /\ calls[c].pc = "detach_driver"
    /\ external_call(c, "detach_bdm", FALSE)
    /\ UNCHANGED <<instances, quota, migration, tracker, lock, bdms>>

\* block_device_mapping_destroy_by_instance_and_volume
detach_bdm(c) ==
    LET cr == calls[c]
        i == cr.inst
    IN  /\ cr.wf = "detach_volume" /\ cr.pc = "detach_bdm"
        /\ bdms' = [bdms EXCEPT ![i] = IF @ > 0 THEN @ - 1 ELSE @]
        /\ calls' = [calls EXCEPT ![c] = Goto(cr, "returned", instances[i])]
        /\ UNCHANGED <<instances, quota, migration, tracker, lock>>

\* a step of run_instance in slot c; the InstanceNotFound handler is a step of
\* its own, taken only where the instance can vanish under a running build
BuildStep(c) ==
    \/ run_lock(c) \/ run_checks(c) \/ start_building(c) \/ instance_claim(c)
    \/ allocate_network_update(c) \/ allocate_network(c)
    \/ block_device_mapping(c) \/ prep_block_device(c)
    \/ spawning(c) \/ spawn(c) \/ spawn_active(c) \/ run_success(c)
    \/ reschedule_or_reraise(c) \/ run_set_error(c)

\* a step of terminate_instance or of the reclaiming periodic task in slot c
DeleteStep(c) ==
    \/ terminate_lock(c) \/ shutdown_network(c) \/ shutdown_set_error(c)
    \/ shutdown_destroy(c) \/ terminate_set_error(c) \/ shutdown_volumes(c)
    \/ delete_update(c) \/ instance_destroy(c)

\* a step of a volume workflow in slot c
VolumeStep(c) ==
    \/ reserve_lock(c) \/ reserve_create(c)
    \/ attach_driver(c) \/ attach_bdm(c) \/ attach_rollback(c)
    \/ detach_driver(c) \/ detach_bdm(c)

-----------------------------------------------------------------------------
(* The periodic task _sync_power_states *)

VmStates ==
    {"active", "building", "paused", "suspended", "stopped", "rescued",
     "resized", "soft-delete", "deleted", "error"}

\* what the driver reports for a domain; one it does not find is NOSTATE
PowerStates == {"nostate", "running", "paused", "shutdown", "crashed", "suspended"}

\* the decision chain with an ACTIVE instance found suspended left alone
sync_stops_without_suspended(vm_state, vm_power_state) ==
    IF vm_state \in {"building", "rescued", "resized", "suspended", "paused", "error"}
    THEN 0
    ELSE IF vm_state = "active"
    THEN IF vm_power_state \in {"shutdown", "crashed"} THEN 1 ELSE 0
    ELSE IF vm_state = "stopped"
    THEN IF vm_power_state \notin {"nostate", "shutdown", "crashed"} THEN 1 ELSE 0
    ELSE 0

\* the if/elif chain of _sync_instance_power_state: how many times
\* conductor_api.compute_stop is called for the pair
sync_stops(vm_state, vm_power_state) ==
    IF vm_state \in {"building", "rescued", "resized", "suspended", "paused", "error"}
    THEN 0
    ELSE IF vm_state = "active"
    THEN IF vm_power_state \in {"shutdown", "crashed"} THEN 1
         ELSE IF vm_power_state = "suspended" THEN 1
         ELSE 0
    ELSE IF vm_state = "stopped"
    THEN IF vm_power_state \notin {"nostate", "shutdown", "crashed"} THEN 1 ELSE 0
    ELSE 0

\* one round of the loop of _sync_power_states over an instance of this host:
\* an instance with a pending task is skipped, else driver.get_info is asked
sync_power_states(c, i) ==
    /\ calls[c].pc = "idle"
    /\ ~instances[i].deleted /\ instances[i].host = "h1"
    /\ \E p \in PowerStates :
        calls' = [calls EXCEPT ![c] =
            IF instances[i].task_state # None
            THEN Goto([IdleCall EXCEPT !.wf = "_sync_power_states", !.inst = i],
                      "returned", instances[i])
            ELSE [IdleCall EXCEPT !.wf = "_sync_power_states", !.inst = i,
                                  !.pc = "sync_instance_power_state",
                                  !.vm_power_state = p]]
    /\ UNCHANGED <<instances, quota, migration, tracker, lock, bdms>>

\* the power state a lifecycle event of the driver stands for; an unexpected
\* transition stands for none
EventPowerState(ev) ==
    CASE ev = "stopped" -> "shutdown"
      [] ev = "started" -> "running"
      [] ev = "paused" -> "paused"
      [] ev = "resumed" -> "running"
      [] OTHER -> "none"

\* handle_lifecycle_event: the instance of the event is read, whatever its
\* host and task_state, and reconciled with the power state of the event
handle_lifecycle_event(c, i) ==
    /\ calls[c].pc = "idle"
    /\ ~instances[i].deleted
    /\ \E ev \in {"stopped", "started", "paused", "resumed", "other"} :
        calls' = [calls EXCEPT ![c] =
            IF EventPowerState(ev) = "none"
            THEN Goto([IdleCall EXCEPT !.wf = "handle_lifecycle_event", !.inst = i],
                      "returned", instances[i])
            ELSE [IdleCall EXCEPT !.wf = "handle_lifecycle_event", !.inst = i,
                                  !.pc = "sync_instance_power_state",
                                  !.vm_power_state = EventPowerState(ev)]]
    /\ UNCHANGED <<instances, quota, migration, tracker, lock, bdms>>

\* the callers of _sync_instance_power_state
Reconcilers == {"_sync_power_states", "handle_lifecycle_event"}

\* a reconciliation that does not look at the task_state read again
sync_instance_power_state_over_pending_task(c) ==
    LET cr == calls[c]
        i == cr.inst
        u == instances[i]
        n == sync_stops(u.vm_state, cr.vm_power_state)
    IN  /\ cr.wf \in Reconcilers /\ cr.pc = "sync_instance_power_state"
        /\ IF u.host # "h1"
           THEN /\ UNCHANGED instances
                /\ calls' = [calls EXCEPT ![c] = Goto(cr, "returned", u)]
           ELSE \E ok \in BOOLEAN :
                /\ instances' = [instances EXCEPT
                       ![i].power_state = cr.vm_power_state,
                       ![i].task_state = IF n > 0 /\ ok THEN "powering-off" ELSE @]
                /\ calls' = [calls EXCEPT ![c] =
                       Goto([cr EXCEPT !.stops = n], "returned", instances'[i])]
        /\ UNCHANGED <<quota, migration, tracker, lock, bdms>>

\* a reconciliation that writes no power_state for the vm_states it ignores
sync_instance_power_state_ignoring_first(c) ==
    LET cr == calls[c]
        i == cr.inst
        u == instances[i]
        n == sync_stops(u.vm_state, cr.vm_power_state)
        ignored == {"building", "rescued", "resized", "suspended", "paused", "error"}
    IN  /\ cr.wf \in Reconcilers /\ cr.pc = "sync_instance_power_state"
        /\ IF u.host # "h1" \/ u.task_state # None
           THEN /\ UNCHANGED instances
                /\ calls' = [calls EXCEPT ![c] = Goto(cr, "returned", u)]
           ELSE \E ok \in BOOLEAN :
                /\ instances' = [instances EXCEPT
                       ![i].power_state = IF u.vm_state \in ignored THEN @
                                          ELSE cr.vm_power_state,
                       ![i].task_state = IF n > 0 /\ ok THEN "powering-off" ELSE @]
                /\ calls' = [calls EXCEPT ![c] =
                       Goto([cr EXCEPT !.stops = n], "returned", instances'[i])]
        /\ UNCHANGED <<quota, migration, tracker, lock, bdms>>

\* _sync_instance_power_state: the record is read again; an instance that
\* moved to another host or got a pending task is left alone; else the
\* power_state is written and the stop API called as often as the chain says.
\* A stop the API accepts marks the instance powering-off; one it refuses is
\* logged.
sync_instance_power_state(c) ==
    LET cr == calls[c]
        i == cr.inst
        u == instances[i]
        n == sync_stops(u.vm_state, cr.vm_power_state)
    IN  /\ cr.wf \in Reconcilers /\ cr.pc = "sync_instance_power_state"
        /\ IF u.host # "h1" \/ u.task_state # None
           THEN /\ UNCHANGED instances
                /\ calls' = [calls EXCEPT ![c] = Goto(cr, "returned", u)]
           ELSE \E ok \in BOOLEAN :
                /\ instances' = [instances EXCEPT
                       ![i].power_state = cr.vm_power_state,
                       ![i].task_state = IF n > 0 /\ ok THEN "powering-off" ELSE @]
                /\ calls' = [calls EXCEPT ![c] =
                       Goto([cr EXCEPT !.stops = n], "returned", instances'[i])]
        /\ UNCHANGED <<quota, migration, tracker, lock, bdms>>

\* a live migration of an ACTIVE instance is requested: task_state MIGRATING
live_migration(i) ==
    /\ ~instances[i].deleted
    /\ instances[i].vm_state = "active" /\ instances[i].task_state = None
    /\ instances[i].host = "h1"
    /\ instances' = [instances EXCEPT ![i].task_state = "migrating"]
    /\ UNCHANGED <<calls, quota, migration, tracker, lock, bdms>>

\* post_live_migration_at_destination on the other host: host=self.host,
\* power_state, vm_state=ACTIVE, task_state=None expecting MIGRATING
post_live_migration_at_destination(i) ==
    /\ conductor_instance_update(instances[i], {"migrating"}) = "ok"
    /\ \E p \in PowerStates :
        instances' = [instances EXCEPT
            ![i] = [Updated(@, "active", None) EXCEPT !.host = "h2",
                                                      !.power_state = p]]
    /\ UNCHANGED <<calls, quota, migration, tracker, lock, bdms>>

-----------------------------------------------------------------------------
(* Requests *)

\* a request for a linear workflow reaches the manager: the caller has moved
\* the idle instance to the workflow's in-progress tag
StartSimple(c, i, wf) ==
    /\ calls[c].pc = "idle"
    /\ wf \in SimpleWorkflows
    /\ ~instances[i].deleted
    /\ instances[i].task_state = None
    /\ instances[i].vm_state \in RequestVmStates(wf)
    /\ instances' = [instances EXCEPT ![i].task_state = EntryTaskState(wf)]
    /\ calls' = [calls EXCEPT ![c] =
           [IdleCall EXCEPT !.wf = wf, !.inst = i, !.pc = "driver",
                            !.entry_ts = EntryTaskState(wf)]]
    /\ UNCHANGED <<quota, migration, tracker, lock, bdms>>

\* a reboot request
StartReboot(c, i) ==
    /\ calls[c].pc = "idle"
    /\ ~instances[i].deleted /\ instances[i].task_state = None
    /\ instances[i].vm_state \in RequestVmStates("reboot_instance")
    /\ instances' = [instances EXCEPT ![i].task_state = "rebooting"]
    /\ calls' = [calls EXCEPT ![c] =
           [IdleCall EXCEPT !.wf = "reboot_instance", !.inst = i,
                            !.pc = "reboot_refresh", !.entry_ts = "rebooting"]]
    /\ UNCHANGED <<quota, migration, tracker, lock, bdms>>

\* a snapshot or backup request
StartSnapshot(c, i, image_type, rotation, existing) ==
    /\ calls[c].pc = "idle"
    /\ ~instances[i].deleted /\ instances[i].task_state = None
    /\ instances[i].vm_state \in RequestVmStates("snapshot_instance")
    /\ instances' = [instances EXCEPT ![i].task_state = SnapshotEntry(image_type)]
    /\ calls' = [calls EXCEPT ![c] =
           [IdleCall EXCEPT !.wf = "snapshot_instance", !.inst = i,
                            !.pc = "snapshot_refresh", !.image_type = image_type,
                            !.rotation = rotation, !.existing = existing,
                            !.entry_ts = SnapshotEntry(image_type)]]
    /\ UNCHANGED <<quota, migration, tracker, lock, bdms>>

\* a rebuild (recreate=False) or evacuate (recreate=True) request
StartRebuild(c, i, recreate) ==
    /\ calls[c].pc = "idle"
    /\ ~instances[i].deleted /\ instances[i].task_state = None
    /\ instances[i].vm_state \in RequestVmStates("rebuild_instance")
    /\ instances' = [instances EXCEPT ![i].task_state = "rebuilding"]
    /\ calls' = [calls EXCEPT ![c] =
           [IdleCall EXCEPT !.wf = "rebuild_instance", !.inst = i,
                            !.pc = IF recreate THEN "rebuild_recreate"
                                   ELSE "rebuild_start",
                            !.recreate = recreate,
                            !.orig_vm_state = instances[i].vm_state,
                            !.entry_ts = "rebuilding"]]
    /\ UNCHANGED <<quota, migration, tracker, lock, bdms>>

\* a resize request, scheduled to host h with the new shape
StartPrepResize(c, i, h, shape, reservations, retry) ==
    /\ calls[c].pc = "idle"
    /\ ~instances[i].deleted /\ instances[i].task_state = None
    /\ instances[i].vm_state \in RequestVmStates("prep_resize")
    /\ migration.next = "none"
    /\ instances' = [instances EXCEPT ![i].task_state = "resize_prep"]
    /\ calls' = [calls EXCEPT ![c] =
           [IdleCall EXCEPT !.wf = "prep_resize", !.inst = i,
                            !.pc = "prep_resize_checks", !.host = h, !.node = h,
                            !.shape = shape, !.reservations = reservations,
                            !.retry = retry, !.request_spec = retry,
                            !.entry_ts = "resize_prep"]]
    /\ migration' = NoMigration
    /\ UNCHANGED <<quota, tracker, lock, bdms>>

\* the first step of the manager methods that are cast along the resize chain
CastPc(wf) ==
    CASE wf = "resize_instance" -> "resize_start"
      [] wf = "finish_resize" -> "finish_flavor"
      [] wf = "finish_revert_resize" -> "frr_update"

\* a cast of the resize chain arrives: resize_instance and
\* finish_revert_resize on the source host, finish_resize on the destination
StartCast(c, i) ==
    /\ calls[c].pc = "idle"
    /\ migration.next # "none"
    /\ calls' = [calls EXCEPT ![c] =
           [IdleCall EXCEPT !.wf = migration.next, !.inst = i,
                !.pc = CastPc(migration.next),
                !.host = IF migration.next = "finish_resize" THEN migration.dest
                         ELSE migration.source,
                !.reservations = migration.reservations,
                !.entry_ts = instances[i].task_state]]
    /\ migration' = [migration EXCEPT !.next = "none"]
    /\ UNCHANGED <<instances, quota, tracker, lock, bdms>>

\* a confirm request on a RESIZED instance: the caller has set vm_state ACTIVE
\* and the migration 'confirmed' before the manager method runs
StartConfirmResize(c, i, reservations) ==
    /\ calls[c].pc = "idle"
    /\ ~instances[i].deleted /\ instances[i].task_state = None
    /\ instances[i].vm_state = "resized" /\ migration.status = "finished"
    /\ instances' = [instances EXCEPT ![i].vm_state = "active"]
    /\ migration' = [migration EXCEPT !.status = "confirmed"]
    /\ calls' = [calls EXCEPT ![c] =
           [IdleCall EXCEPT !.wf = "confirm_resize", !.inst = i,
                            !.pc = "confirm_sysmeta", !.host = migration.source,
                            !.reservations = reservations]]
    /\ UNCHANGED <<quota, tracker, lock, bdms>>

\* a revert request on a RESIZED instance: the caller has set
\* task_state=RESIZE_REVERTING and the migration 'reverting'
StartRevertResize(c, i, reservations) ==
    /\ calls[c].pc = "idle"
    /\ ~instances[i].deleted /\ instances[i].task_state = None
    /\ instances[i].vm_state = "resized" /\ migration.status = "finished"
    /\ instances' = [instances EXCEPT ![i].task_state = "resize_reverting"]
    /\ migration' = [migration EXCEPT !.status = "reverting"]
    /\ calls' = [calls EXCEPT ![c] =
           [IdleCall EXCEPT !.wf = "revert_resize", !.inst = i,
                            !.pc = "revert_driver", !.host = migration.dest,
                            !.reservations = reservations,
                            !.entry_ts = "resize_reverting"]]
    /\ UNCHANGED <<quota, tracker, lock, bdms>>

\* the scheduler casts run_instance for instance i to this host's node n
StartRunInstance(c, i, n, shape, retry, request_spec) ==
    /\ calls[c].pc = "idle"
    /\ ~instances[i].deleted
    /\ calls' = [calls EXCEPT ![c] =
           [IdleCall EXCEPT !.wf = "run_instance", !.inst = i, !.pc = "run_lock",
                            !.node = n, !.shape = shape, !.retry = retry,
                            !.request_spec = request_spec,
                            !.entry_ts = instances[i].task_state]]
    /\ UNCHANGED <<instances, quota, migration, tracker, lock, bdms>>

\* a delete request: the caller has set task_state=DELETING, whatever the
\* instance was doing
StartTerminate(c, i) ==
    /\ calls[c].pc = "idle"
    /\ ~instances[i].deleted
    /\ instances' = [instances EXCEPT ![i].task_state = "deleting"]
    /\ calls' = [calls EXCEPT ![c] =
           [IdleCall EXCEPT !.wf = "terminate_instance", !.inst = i,
                            !.pc = "terminate_lock", !.entry_ts = "deleting"]]
    /\ UNCHANGED <<quota, migration, tracker, lock, bdms>>

\* a terminate request delivered again after the instance was deleted: the
\* manager method takes the instance from the message and runs as before
RepeatTerminate(c, i) ==
    /\ calls[c].pc = "idle"
    /\ instances[i].deleted
    /\ calls' = [calls EXCEPT ![c] =
           [IdleCall EXCEPT !.wf = "terminate_instance", !.inst = i,
                            !.pc = "terminate_lock",
                            !.orig_vm_state = instances[i].vm_state,
                            !.entry_ts = instances[i].task_state]]
    /\ UNCHANGED <<instances, quota, migration, tracker, lock, bdms>>

\* the first step of the volume workflows
VolumePc(wf) ==
    CASE wf = "reserve_block_device_name" -> "reserve_lock"
      [] wf = "attach_volume" -> "attach_driver"
      [] wf = "detach_volume" -> "detach_driver"

VolumeWorkflows == {"reserve_block_device_name", "attach_volume", "detach_volume"}

\* a volume request; they leave task_state alone
StartVolume(c, i, wf) ==
    /\ calls[c].pc = "idle"
    /\ ~instances[i].deleted
    /\ wf = "detach_volume" => bdms[i] > 0
    /\ calls' = [calls EXCEPT ![c] =
           [IdleCall EXCEPT !.wf = wf, !.inst = i, !.pc = VolumePc(wf),
                            !.entry_ts = instances[i].task_state]]
    /\ UNCHANGED <<instances, quota, migration, tracker, lock, bdms>>

\* _reclaim_queued_deletes finds instance i SOFT_DELETED and old enough and
\* calls _delete_instance on it
StartReclaim(c, i) ==
    /\ calls[c].pc = "idle"
    /\ ~instances[i].deleted
    /\ instances[i].vm_state = "soft-delete"
    /\ calls' = [calls EXCEPT ![c] =
           [IdleCall EXCEPT !.wf = "_reclaim_queued_deletes", !.inst = i,
                            !.pc = "shutdown_network",
                            !.entry_ts = instances[i].task_state]]
    /\ UNCHANGED <<instances, quota, migration, tracker, lock, bdms>>

\* the values of CONF.reclaim_instance_interval: none below 1 enables the
\* periodic task
MaxReclaimInterval == 1
ReclaimIntervals == -1..MaxReclaimInterval

\* a pass of _reclaim_queued_deletes: with reclaim_instance_interval <= 0 it
\* returns at once; else the instances of this host are read once, and
\* _delete_instance runs for each that is SOFT_DELETED in that list and old
\* enough (those in old), one after the other in the order of the list
StartReclaimPass(c, interval, old) ==
    LET queued == {i \in Instances :
                      ~instances[i].deleted /\ instances[i].vm_state = "soft-delete"}
                  \cap old
        started == [IdleCall EXCEPT !.wf = "_reclaim_queued_deletes",
                                    !.timeout = interval]
    IN  /\ calls[c].pc = "idle"
        /\ IF interval <= 0 \/ queued = {}
           THEN calls' = [calls EXCEPT ![c] = [started EXCEPT !.pc = "returned"]]
           ELSE \E i \in queued :
                    calls' = [calls EXCEPT ![c] =
                        [started EXCEPT !.inst = i, !.todo = queued \ {i},
                                        !.pc = "shutdown_network",
                                        !.entry_ts = instances[i].task_state]]
        /\ UNCHANGED <<instances, quota, migration, tracker, lock, bdms>>

\* the manager methods that work on the migration of a resize
ResizeFamily ==
    {"prep_resize", "resize_instance", "finish_resize", "confirm_resize",
     "revert_resize", "finish_revert_resize"}

\* the manager method has returned or raised: the slot is free again.  A
\* migration that no manager method will touch again (no cast in flight, no
\* other method of the resize running, the instance not RESIZED and waiting
\* for confirm or revert) is not followed any further, nor are the
\* reservations of the finished request.
Return(c) ==
    LET over == /\ migration.next = "none"
                /\ \A d \in CallIds \ {c} : calls[d].wf \notin ResizeFamily
                /\ ~(instances[calls[c].inst].vm_state = "resized"
                     /\ migration.status = "finished")
    IN  /\ calls[c].pc \in Terminal
        /\ calls' = [calls EXCEPT ![c] = IdleCall]
        /\ migration' = IF over THEN NoMigration ELSE migration
        /\ quota' = IF over THEN NoQuota ELSE quota
        /\ UNCHANGED <<instances, tracker, lock, bdms>>

-----------------------------------------------------------------------------
(* Specifications *)

NewInstance(vm, ts) ==
    [vm_state |-> vm, task_state |-> ts, deleted |-> FALSE, host |-> "h1",
     power_state |-> "nostate"]

NoTracker == [i \in Instances |-> [build |-> NoClaim, resize |-> NoClaim]]

\* a step of a lifecycle workflow in slot c
LifecycleStep(c) ==
    \/ simple_driver_call(c) \/ simple_fallback(c) \/ simple_final_update(c)
    \/ reverts_task_state(c) \/ error_out_quota_rollback(c)
    \/ error_out_set_error(c)
    \/ reboot_refresh(c) \/ reboot_driver(c) \/ reboot_final(c)
    \/ snapshot_refresh(c) \/ snapshot_pending_upload(c)
    \/ snapshot_uploading(c) \/ snapshot_upload(c) \/ snapshot_final(c)
    \/ rotate_backups(c) \/ rotate_delete(c)
    \/ rebuild_recreate(c) \/ rebuild_start(c) \/ rebuild_destroy(c)
    \/ rebuild_block_device_mapping(c) \/ rebuild_prep_block_device(c)
    \/ rebuild_spawning(c) \/ rebuild_spawn(c) \/ rebuild_active(c)
    \/ rebuild_stopping(c) \/ rebuild_stop_instance(c)
    \/ reschedule_update(c) \/ reschedule_cast(c)
    \/ prep_resize_checks(c) \/ prep_resize_claim(c) \/ prep_resize_cast(c)
    \/ prep_resize_end(c)
    \/ resize_start(c) \/ resize_driver(c) \/ resize_migrated(c)
    \/ resize_cast(c) \/ resize_end(c)
    \/ finish_flavor(c) \/ finish_resize_finish(c) \/ finish_driver(c)
    \/ finish_resized(c) \/ finish_commit(c) \/ finish_rollback(c)
    \/ finish_set_error(c)
    \/ confirm_sysmeta(c) \/ confirm_driver(c) \/ confirm_commit(c)
    \/ revert_driver(c) \/ revert_tracker(c)
    \/ frr_update(c) \/ frr_driver(c) \/ frr_launched(c) \/ frr_active(c)
    \/ frr_commit(c)

\* the requests that can reach the manager for instance i
Request(c, i) ==
    \/ \E wf \in SimpleWorkflows : StartSimple(c, i, wf)
    \/ StartReboot(c, i)
    \/ StartSnapshot(c, i, "snapshot", {}, {})
    \/ \E e \in {{}, {1}} : StartSnapshot(c, i, "backup", {0}, e)
    \/ \E r \in BOOLEAN : StartRebuild(c, i, r)
    \/ \E h \in Hosts, r \in BOOLEAN, y \in BOOLEAN :
           StartPrepResize(c, i, h, "B", r, y)
    \/ StartCast(c, i)
    \/ \E r \in BOOLEAN : StartConfirmResize(c, i, r)
    \/ \E r \in BOOLEAN : StartRevertResize(c, i, r)
    \/ /\ instances[i].task_state = "scheduling"
       /\ \E y \in BOOLEAN, q \in BOOLEAN : StartRunInstance(c, i, "h1", "A", y, q)

\* one instance, scheduled to this host, built and then driven through the
\* lifecycle workflows (slot w1) while a delete request (slot t1) may arrive
\* at any time
Init ==
    /\ instances = [i \in Instances |-> NewInstance("building", "scheduling")]
    /\ calls = [c \in CallIds |-> IdleCall]
    /\ quota = NoQuota
    /\ migration = NoMigration
    /\ tracker = NoTracker
    /\ lock = [i \in Instances |-> "none"]
    /\ bdms = [i \in Instances |-> 0]
    /\ resource_tracker_dict = NoTrackers

\* a call that has returned or raised is observed before anything else happens
Observed == \A c \in CallIds : calls[c].pc \notin Terminal

\* requests arrive between two passes of the periodic tasks
Next ==
    \/ /\ UNCHANGED resource_tracker_dict
       /\ Observed /\ Synced /\ Request("w1", "i1")
    \/ /\ UNCHANGED resource_tracker_dict
       /\ Observed /\ Synced /\ StartTerminate("t1", "i1")
    \/ /\ UNCHANGED resource_tracker_dict
       /\ Observed /\ update_available_resource
    \/ /\ UNCHANGED resource_tracker_dict
       /\ Observed /\ \E c \in {"w1", "t1"} :
                          LifecycleStep(c) \/ BuildStep(c) \/ DeleteStep(c)
    \/ /\ UNCHANGED resource_tracker_dict
       /\ \E c \in {"w1", "t1"} : Return(c)

Spec == Init /\ [][Next]_vars

\* two instances scheduled to the same node: the build request of i1 in
\* slot b1, and in slot b2 the build request of i2 or a second delivery of
\* the one of i1
NextBuild ==
    \/ /\ UNCHANGED resource_tracker_dict
       /\ Observed /\ \E f \in Flavors, y \in BOOLEAN, q \in BOOLEAN :
                          /\ instances["i1"].task_state = "scheduling"
                          /\ StartRunInstance("b1", "i1", "h1", f, y, q)
    \/ /\ UNCHANGED resource_tracker_dict
       /\ Observed /\ \E i \in Instances :
                          /\ instances[i].task_state = "scheduling"
                          /\ StartRunInstance("b2", i, "h1", "A", FALSE, FALSE)
    \/ /\ UNCHANGED resource_tracker_dict
       /\ Observed /\ \E c \in {"b1", "b2"} :
                          \/ BuildStep(c) \/ reverts_task_state(c)
                          \/ reschedule_update(c) \/ reschedule_cast(c)
    \/ /\ UNCHANGED resource_tracker_dict
       /\ \E c \in {"b1", "b2"} : Return(c)

SpecBuild == Init /\ [][NextBuild]_vars

\* the build of instance i1, the volume workflows on it and its deletion
NextVolumes ==
    \/ /\ UNCHANGED resource_tracker_dict
       /\ Observed /\ instances["i1"].task_state = "scheduling"
                   /\ StartRunInstance("b1", "i1", "h1", "A", FALSE, FALSE)
    \/ /\ UNCHANGED resource_tracker_dict
       /\ Observed /\ StartTerminate("t1", "i1")
    \/ /\ UNCHANGED resource_tracker_dict
       /\ Observed /\ \E wf \in VolumeWorkflows : StartVolume("v1", "i1", wf)
    \/ /\ UNCHANGED resource_tracker_dict
       /\ Observed /\ \/ BuildStep("b1") \/ reverts_task_state("b1")
                      \/ reschedule_update("b1")
    \/ /\ UNCHANGED resource_tracker_dict
       /\ Observed /\ DeleteStep("t1")
    \/ /\ UNCHANGED resource_tracker_dict
       /\ Observed /\ (VolumeStep("v1") \/ reverts_task_state("v1"))
    \/ /\ UNCHANGED resource_tracker_dict
       /\ \E c \in {"b1", "t1", "v1"} : Return(c)

SpecVolumes == Init /\ [][NextVolumes]_vars

\* the usage of an instance built with flavor A on node h1
BuiltTracker ==
    [NoTracker EXCEPT !["i1"].build =
        [node |-> "h1", flavor |-> "A", state |-> "confirmed"]]

\* instance i1 built and then soft-deleted, with or without a volume
InitReclaim ==
    /\ instances = [i \in Instances |->
           IF i = "i1" THEN NewInstance("soft-delete", None)
           ELSE NewInstance("building", "scheduling")]
    /\ calls = [c \in CallIds |-> IdleCall]
    /\ quota = NoQuota
    /\ migration = NoMigration
    /\ tracker = BuiltTracker
    /\ lock = [i \in Instances |-> "none"]
    /\ bdms \in {[i \in Instances |-> IF i = "i1" THEN n ELSE 0] : n \in 0..1}
    /\ resource_tracker_dict = NoTrackers

\* the soft-deleted instance is deleted for good, by request (slot t1) and by
\* the reclaiming periodic task (slot r1), while a build request delivered
\* late may still arrive (slot b1)
NextReclaim ==
    \/ /\ UNCHANGED resource_tracker_dict
       /\ Observed /\ StartRunInstance("b1", "i1", "h1", "A", FALSE, FALSE)
    \/ /\ UNCHANGED resource_tracker_dict
       /\ Observed /\ StartTerminate("t1", "i1")
    \/ /\ UNCHANGED resource_tracker_dict
       /\ Observed /\ StartReclaim("r1", "i1")
    \/ /\ UNCHANGED resource_tracker_dict
       /\ Observed /\ RepeatTerminate("t1", "i1")
    \/ /\ UNCHANGED resource_tracker_dict
       /\ Observed /\ \/ BuildStep("b1") \/ run_notfound_dealloc("b1")
                      \/ reverts_task_state("b1") \/ reschedule_update("b1")
    \/ /\ UNCHANGED resource_tracker_dict
       /\ Observed /\ \E c \in {"t1", "r1"} : DeleteStep(c)
    \/ /\ UNCHANGED resource_tracker_dict
       /\ \E c \in {"b1", "t1", "r1"} : Return(c)

SpecReclaim == InitReclaim /\ [][NextReclaim]_vars

\* instance i1 in any state the record store can show, i2 being built
InitSync ==
    /\ instances \in
          {[i \in Instances |->
               IF i = "i1"
               THEN [NewInstance(vm, ts) EXCEPT !.host = h, !.power_state = p]
               ELSE NewInstance("building", "scheduling")] :
           vm \in VmStates, ts \in {None, "powering-off"}, h \in Hosts,
           p \in PowerStates}
    /\ calls = [c \in CallIds |-> IdleCall]
    /\ quota = NoQuota
    /\ migration = NoMigration
    /\ tracker = NoTracker
    /\ lock = [i \in Instances |-> "none"]
    /\ bdms = [i \in Instances |-> 0]
    /\ resource_tracker_dict = NoTrackers

\* the power-state reconciliation of i1 (slot r1) while i1 may be live-migrated
NextSync ==
    \/ /\ UNCHANGED resource_tracker_dict
       /\ Observed /\ sync_power_states("r1", "i1")
    \/ /\ UNCHANGED resource_tracker_dict
       /\ Observed /\ handle_lifecycle_event("r1", "i1")
    \/ /\ UNCHANGED resource_tracker_dict
       /\ Observed /\ sync_instance_power_state("r1")
    \/ /\ UNCHANGED resource_tracker_dict
       /\ Observed /\ live_migration("i1")
    \/ /\ UNCHANGED resource_tracker_dict
       /\ Observed /\ post_live_migration_at_destination("i1")
    \/ /\ UNCHANGED resource_tracker_dict
       /\ Return("r1")

SpecSync == InitSync /\ [][NextSync]_vars

\* instance i1 built and ACTIVE
InitRotate ==
    /\ instances = [i \in Instances |->
           IF i = "i1" THEN NewInstance("active", None)
           ELSE NewInstance("building", "scheduling")]
    /\ calls = [c \in CallIds |-> IdleCall]
    /\ quota = NoQuota
    /\ migration = NoMigration
    /\ tracker = BuiltTracker
    /\ lock = [i \in Instances |-> "none"]
    /\ bdms = [i \in Instances |-> 0]
    /\ resource_tracker_dict = NoTrackers

\* snapshots and backups of i1, with any rotation and any backups existing
NextRotate ==
    \/ /\ UNCHANGED resource_tracker_dict
       /\ Observed /\ \E t \in {"snapshot", "backup"},
                         r \in {{}} \cup {{n} : n \in 0..MaxRotation},
                         e \in SUBSET (1..MaxImages) :
                         StartSnapshot("w1", "i1", t, r, e)
    \/ /\ UNCHANGED resource_tracker_dict
       /\ Observed /\ \/ snapshot_refresh("w1") \/ snapshot_pending_upload("w1")
                      \/ snapshot_uploading("w1") \/ snapshot_upload("w1")
                      \/ snapshot_final("w1")
    \/ /\ UNCHANGED resource_tracker_dict
       /\ Observed /\ (rotate_backups("w1") \/ rotate_delete("w1"))
    \/ /\ UNCHANGED resource_tracker_dict
       /\ Observed /\ reverts_task_state("w1")
    \/ /\ UNCHANGED resource_tracker_dict
       /\ Return("w1")

SpecRotate == InitRotate /\ [][NextRotate]_vars

\* the values of CONF.resize_confirm_window: 0 disables the periodic task
MaxConfirmWindow == 1
ConfirmWindows == 0..MaxConfirmWindow

\* the periodic task in slot r has run and what it did is on record
Swept(r, what, window) ==
    [IdleCall EXCEPT !.wf = "_poll_unconfirmed_resizes", !.pc = "returned",
                     !.swept = what, !.window = window]

\* a sweep that asks for the confirm of a RESIZED instance that has a task
\* pending
poll_unconfirmed_resizes_ignoring_task_state(r, c, i, window) ==
    LET u == instances[i]
    IN  /\ calls[r].pc = "idle" /\ r # c
        /\ migration.status = "finished"
        /\ window > 0
        /\ IF u.deleted \/ u.vm_state = "error" \/ u.vm_state # "resized"
           THEN /\ migration' = [migration EXCEPT !.status = "error"]
                /\ calls' = [calls EXCEPT ![r] = Swept(r, "error", window)]
                /\ UNCHANGED <<instances, quota, tracker, lock, bdms>>
           ELSE /\ calls[c].pc = "idle"
                /\ instances' = [instances EXCEPT ![i].vm_state = "active"]
                /\ migration' = [migration EXCEPT !.status = "confirmed"]
                /\ calls' = [calls EXCEPT
                       ![r] = Swept(r, "confirm", window),
                       ![c] = [IdleCall EXCEPT !.wf = "confirm_resize", !.inst = i,
                                   !.pc = "confirm_sysmeta",
                                   !.host = migration.source]]
                /\ UNCHANGED <<quota, tracker, lock, bdms>>

\* _poll_unconfirmed_resizes (slot r) for the migration of instance i,
\* 'finished' for longer than the confirm window: nothing at all with
\* resize_confirm_window = 0; else the migration is set to 'error' when the
\* instance is gone, in ERROR, or not RESIZED with task_state null; else
\* compute_api.confirm_resize is called (the confirm then runs in slot c),
\* whose failure is logged and changes nothing
poll_unconfirmed_resizes(r, c, i, window) ==
    LET u == instances[i]
    IN  /\ calls[r].pc = "idle" /\ r # c
        /\ migration.status = "finished"
        /\ IF window = 0
           THEN /\ calls' = [calls EXCEPT ![r] = Swept(r, "nothing", window)]
                /\ UNCHANGED <<instances, quota, migration, tracker, lock, bdms>>
           ELSE IF \/ u.deleted
                   \/ u.vm_state = "error"
                   \/ u.vm_state # "resized" \/ u.task_state # None
           THEN /\ migration' = [migration EXCEPT !.status = "error"]
                /\ calls' = [calls EXCEPT ![r] = Swept(r, "error", window)]
                /\ UNCHANGED <<instances, quota, tracker, lock, bdms>>
           ELSE \/ /\ calls' = [calls EXCEPT ![r] = Swept(r, "confirm_failed", window)]
                   /\ UNCHANGED <<instances, quota, migration, tracker, lock, bdms>>
                \/ /\ calls[c].pc = "idle"
                   /\ \E reservations \in BOOLEAN :
                       /\ instances' = [instances EXCEPT ![i].vm_state = "active"]
                       /\ migration' = [migration EXCEPT !.status = "confirmed"]
                       /\ calls' = [calls EXCEPT
                              ![r] = Swept(r, "confirm", window),
                              ![c] = [IdleCall EXCEPT !.wf = "confirm_resize",
                                          !.inst = i, !.pc = "confirm_sysmeta",
                                          !.host = migration.source,
                                          !.reservations = reservations]]
                       /\ UNCHANGED <<quota, tracker, lock, bdms>>

\* a step of a manager method of the resize family in slot c
ResizeStep(c) ==
    \/ reverts_task_state(c) \/ error_out_quota_rollback(c)
    \/ error_out_set_error(c)
    \/ reschedule_update(c) \/ reschedule_cast(c)
    \/ prep_resize_checks(c) \/ prep_resize_claim(c) \/ prep_resize_cast(c)
    \/ prep_resize_end(c)
    \/ resize_start(c) \/ resize_driver(c) \/ resize_migrated(c)
    \/ resize_cast(c) \/ resize_end(c)
    \/ finish_flavor(c) \/ finish_resize_finish(c) \/ finish_driver(c)
    \/ finish_resized(c) \/ finish_commit(c) \/ finish_rollback(c)
    \/ finish_set_error(c)
    \/ confirm_sysmeta(c) \/ confirm_driver(c) \/ confirm_commit(c)
    \/ revert_driver(c) \/ revert_tracker(c)
    \/ frr_update(c) \/ frr_driver(c) \/ frr_launched(c) \/ frr_active(c)
    \/ frr_commit(c)

\* the manager method has returned or raised; the migration record stays in
\* the database as the method left it
Returned(c) ==
    /\ calls[c].pc \in Terminal
    /\ calls' = [calls EXCEPT ![c] = IdleCall]
    /\ UNCHANGED <<instances, quota, migration, tracker, lock, bdms>>

\* instance i1 ACTIVE on h1
InitResize ==
    /\ instances = [i \in Instances |->
           IF i = "i1" THEN NewInstance("active", None)
           ELSE NewInstance("building", "scheduling")]
    /\ calls = [c \in CallIds |-> IdleCall]
    /\ quota = NoQuota
    /\ migration = NoMigration
    /\ tracker = BuiltTracker
    /\ lock = [i \in Instances |-> "none"]
    /\ bdms = [i \in Instances |-> 0]
    /\ resource_tracker_dict = NoTrackers

\* resizes of i1 (slot w1), confirmed, reverted or left to the periodic task
\* _poll_unconfirmed_resizes, while a delete request (slot t1) may arrive
NextResize ==
    \/ /\ UNCHANGED resource_tracker_dict
       /\ Observed /\ \E h \in Hosts, r \in BOOLEAN, y \in BOOLEAN :
                          StartPrepResize("w1", "i1", h, "B", r, y)
    \/ /\ UNCHANGED resource_tracker_dict
       /\ Observed /\ StartCast("w1", "i1")
    \/ /\ UNCHANGED resource_tracker_dict
       /\ Observed /\ \E r \in BOOLEAN : StartConfirmResize("w1", "i1", r)
    \/ /\ UNCHANGED resource_tracker_dict
       /\ Observed /\ \E r \in BOOLEAN : StartRevertResize("w1", "i1", r)
    \/ /\ UNCHANGED resource_tracker_dict
       /\ Observed /\ StartTerminate("t1", "i1")
    \/ /\ UNCHANGED resource_tracker_dict
       /\ Observed /\ \E window \in ConfirmWindows :
                          poll_unconfirmed_resizes("r1", "w1", "i1", window)
    \/ /\ UNCHANGED resource_tracker_dict
       /\ Observed /\ \E c \in {"w1", "t1"} : ResizeStep(c) \/ DeleteStep(c)
    \/ /\ UNCHANGED resource_tracker_dict
       /\ \E c \in {"w1", "t1", "r1"} : Returned(c)

SpecResize == InitResize /\ [][NextResize]_vars

\* the values of CONF.instance_build_timeout: 0 disables the periodic task
MaxBuildTimeout == 1
BuildTimeouts == 0..MaxBuildTimeout

\* _check_instance_build_time is run (slot r): with instance_build_timeout = 0
\* it returns at once; else it reads the instances in vm_state BUILDING, of
\* which those in old were created longer ago than the timeout
check_instance_build_time(r, timeout, old) ==
    LET building == {i \in Instances :
                        ~instances[i].deleted /\ instances[i].vm_state = "building"}
        started == [IdleCall EXCEPT !.wf = "_check_instance_build_time",
                                    !.timeout = timeout]
    IN  /\ calls[r].pc = "idle"
        /\ calls' = [calls EXCEPT ![r] =
               IF timeout = 0 THEN [started EXCEPT !.pc = "returned"]
               ELSE [started EXCEPT !.pc = "build_time_next",
                                    !.todo = building \cap old]]
        /\ UNCHANGED <<instances, quota, migration, tracker, lock, bdms>>

\* the loop over the instances read: the next one, or the end of the pass
build_time_next(r) ==
    LET cr == calls[r]
    IN  /\ cr.wf = "_check_instance_build_time" /\ cr.pc = "build_time_next"
        /\ IF cr.todo = {}
           THEN calls' = [calls EXCEPT ![r].pc = "returned"]
           ELSE \E i \in cr.todo :
                    calls' = [calls EXCEPT ![r] =
                        [cr EXCEPT !.inst = i, !.todo = @ \ {i},
                                   !.pc = "build_time_set_error"]]
        /\ UNCHANGED <<instances, quota, migration, tracker, lock, bdms>>

\* _set_instance_error_state for the instance that timed out
build_time_set_error(r) ==
    /\ calls[r].wf = "_check_instance_build_time"
    /\ calls[r].pc = "build_time_set_error"
    /\ set_instance_error_state(r, "build_time_next")
    /\ UNCHANGED <<quota, migration, tracker, lock, bdms>>

\* the builds of i1 and i2 (slots b1, b2) while the build-timeout periodic
\* task runs (slot r1)
NextBuildTime ==
    \/ /\ UNCHANGED resource_tracker_dict
       /\ Observed /\ \E i \in Instances, c \in {"b1", "b2"} :
                          /\ instances[i].task_state = "scheduling"
                          /\ c = (IF i = "i1" THEN "b1" ELSE "b2")
                          /\ StartRunInstance(c, i, "h1", "A", FALSE, FALSE)
    \/ /\ UNCHANGED resource_tracker_dict
       /\ Observed /\ \E c \in {"b1", "b2"} : BuildStep(c) \/ reverts_task_state(c)
    \/ /\ UNCHANGED resource_tracker_dict
       /\ Observed /\ \E timeout \in BuildTimeouts, old \in SUBSET Instances :
                          check_instance_build_time("r1", timeout, old)
    \/ /\ UNCHANGED resource_tracker_dict
       /\ Observed /\ (build_time_next("r1") \/ build_time_set_error("r1"))
    \/ /\ UNCHANGED resource_tracker_dict
       /\ \E c \in {"b1", "b2", "r1"} : Returned(c)

SpecBuildTime == Init /\ [][NextBuildTime]_vars

\* both instances of this host soft-deleted, with or without a volume
InitJanitor ==
    /\ instances = [i \in Instances |-> NewInstance("soft-delete", None)]
    /\ calls = [c \in CallIds |-> IdleCall]
    /\ quota = NoQuota
    /\ migration = NoMigration
    /\ tracker = BuiltTracker
    /\ lock = [i \in Instances |-> "none"]
    /\ bdms \in [Instances -> 0..1]
    /\ resource_tracker_dict = NoTrackers

\* passes of the reclaiming periodic task (slot r1) over the instances of
\* the host, while a delete request for one of them may arrive (slot t1)
NextJanitor ==
    \/ /\ UNCHANGED resource_tracker_dict
       /\ Observed /\ \E interval \in ReclaimIntervals, old \in SUBSET Instances :
                          StartReclaimPass("r1", interval, old)
    \/ /\ UNCHANGED resource_tracker_dict
       /\ Observed /\ reclaim_next("r1")
    \/ /\ UNCHANGED resource_tracker_dict
       /\ Observed /\ \E i \in Instances : StartTerminate("t1", i)
    \/ /\ UNCHANGED resource_tracker_dict
       /\ Observed /\ \E c \in {"t1", "r1"} : DeleteStep(c)
    \/ /\ UNCHANGED resource_tracker_dict
       /\ \E c \in {"t1", "r1"} : Returned(c)

SpecJanitor == InitJanitor /\ [][NextJanitor]_vars

\* passes of the reclaiming periodic task (slot r1) while the soft-deleted
\* instance i1 is restored on request (slot w1)
NextRestore ==
    \/ /\ UNCHANGED resource_tracker_dict
       /\ Observed /\ \E interval \in ReclaimIntervals, old \in SUBSET {"i1"} :
                          StartReclaimPass("r1", interval, old)
    \/ /\ UNCHANGED resource_tracker_dict
       /\ Observed /\ DeleteStep("r1")
    \/ /\ UNCHANGED resource_tracker_dict
       /\ Observed /\ StartSimple("w1", "i1", "restore_instance")
    \/ /\ UNCHANGED resource_tracker_dict
       /\ Observed /\ \/ simple_driver_call("w1") \/ simple_fallback("w1")
                      \/ simple_final_update("w1") \/ reverts_task_state("w1")
    \/ /\ UNCHANGED resource_tracker_dict
       /\ \E c \in {"r1", "w1"} : Returned(c)

SpecRestore == InitReclaim /\ [][NextRestore]_vars

-----------------------------------------------------------------------------
(* init_host: the start of the service on host h1 *)

\* init_host is entered (slot r): the records of this host are read; the
\* hypervisor reports the instances in reported, and the driver does or does
\* not implement list_instance_uuids
init_host(r, reported, uuids) ==
    /\ calls[r].pc = "idle"
    /\ calls' = [calls EXCEPT ![r] =
           [IdleCall EXCEPT !.wf = "init_host", !.pc = "destroy_evacuated",
                            !.reported = reported, !.uuids = uuids,
                            !.todo = {i \in Instances :
                                         ~instances[i].deleted
                                         /\ instances[i].host = "h1"}]]
    /\ UNCHANGED <<instances, quota, migration, tracker, lock, bdms>>

\* _get_instances_on_driver: the records of the uuids the driver lists, or,
\* without list_instance_uuids, those of this host's records whose name the
\* driver lists
get_instances_on_driver(reported, uuids) ==
    IF uuids
    THEN {i \in reported : ~instances[i].deleted}
    ELSE {i \in reported : ~instances[i].deleted /\ instances[i].host = "h1"}

\* _destroy_evacuated_instances: driver.destroy for every instance found on
\* the driver whose record names another host; a failing destroy ends
\* init_host
destroy_evacuated(r) ==
    LET cr == calls[r]
        evacuated == {i \in get_instances_on_driver(cr.reported, cr.uuids) :
                         instances[i].host # "h1"}
    IN  /\ cr.wf = "init_host" /\ cr.pc = "destroy_evacuated"
        /\ \/ calls' = [calls EXCEPT ![r] =
                  [cr EXCEPT !.destroyed = evacuated, !.pc = "init_next"]]
           \/ \E failed \in evacuated :
                  calls' = [calls EXCEPT ![r] =
                      Goto([cr EXCEPT !.destroyed = evacuated \ {failed},
                                      !.exc = "Error"],
                           "raised", instances[failed])]
        /\ UNCHANGED <<instances, quota, migration, tracker, lock, bdms>>

\* the loop of init_host over the records read at its start
init_next(r) ==
    LET cr == calls[r]
    IN  /\ cr.wf = "init_host" /\ cr.pc = "init_next"
        /\ IF cr.todo = {}
           THEN calls' = [calls EXCEPT ![r].pc = "returned"]
           ELSE \E i \in cr.todo :
                    calls' = [calls EXCEPT ![r] =
                        [cr EXCEPT !.inst = i, !.todo = @ \ {i},
                                   !.pc = "init_instance"]]
        /\ UNCHANGED <<instances, quota, migration, tracker, lock, bdms>>

\* what driver.resume_state_on_host_boot can do
ResumeOutcomes == {"ok", "NotImplementedError", "Error"}

\* an _init_instance that resets task_state only after a successful revert
init_instance_reset_on_success(r) ==
    LET cr == calls[r]
        i == cr.inst
        u == instances[i]
    IN  /\ cr.wf = "init_host" /\ cr.pc = "init_instance"
        /\ u.vm_state \notin {"deleted", "soft-delete"}
        /\ \E revert_ok \in BOOLEAN :
               /\ instances' = [instances EXCEPT ![i].task_state =
                      IF u.task_state = "resize_migrating" /\ revert_ok
                      THEN None ELSE @]
               /\ calls' = [calls EXCEPT ![r] =
                      [cr EXCEPT !.pc = "init_next",
                                 !.initialized = @ \cup {i},
                                 !.driver_calls = @ \cup {<<i, "plug_vifs">>},
                                 !.reverted = IF u.task_state = "resize_migrating"
                                              THEN @ \cup {i} ELSE @]]
        /\ UNCHANGED <<quota, migration, tracker, lock, bdms>>

\* _init_instance for the next record.  Nothing for DELETED and SOFT_DELETED;
\* else plug_vifs (its failure leaves init_host), for task_state
\* RESIZE_MIGRATING driver.finish_revert_migration and, in the finally
\* clause, task_state=None; then, when the record says RUNNING, the driver
\* does not and resume_guests_state_on_host_boot is set,
\* driver.resume_state_on_host_boot, whose failure sets the instance to ERROR
init_instance(r) ==
    LET cr == calls[r]
        i == cr.inst
        u == instances[i]
        migrating == u.task_state = "resize_migrating"
    IN  /\ cr.wf = "init_host" /\ cr.pc = "init_instance"
        /\ IF u.vm_state \in {"deleted", "soft-delete"}
           THEN /\ calls' = [calls EXCEPT ![r] =
                       [cr EXCEPT !.pc = "init_next", !.initialized = @ \cup {i}]]
                /\ UNCHANGED instances
           ELSE \E plug_ok \in BOOLEAN, revert_ok \in BOOLEAN,
                   drv_state \in {"running", "shutdown"},
                   resume_guests \in BOOLEAN, resumed \in ResumeOutcomes :
                    IF ~plug_ok
                    THEN /\ calls' = [calls EXCEPT ![r] =
                                Goto([cr EXCEPT !.exc = "Error",
                                         !.driver_calls = @ \cup {<<i, "plug_vifs">>}],
                                     "raised", u)]
                         /\ UNCHANGED instances
                    ELSE LET expect_running ==
                                 u.power_state = "running" /\ drv_state # "running"
                             resume == expect_running /\ resume_guests
                             failed == resume /\ resumed = "Error"
                         IN  /\ instances' = [instances EXCEPT ![i] =
                                    Updated(u, IF failed THEN "error" ELSE Keep,
                                            IF migrating THEN None ELSE Keep)]
                             /\ calls' = [calls EXCEPT ![r] =
                                    [cr EXCEPT
                                       !.pc = "init_next",
                                       !.initialized = @ \cup {i},
                                       !.errored = @ \/ failed,
                                       !.driver_failed = @ \/ failed
                                           \/ (migrating /\ ~revert_ok),
                                       !.reverted = IF migrating THEN @ \cup {i}
                                                    ELSE @,
                                       !.driver_calls = @ \cup {<<i, "plug_vifs">>}
                                           \cup (IF migrating
                                                 THEN {<<i, "finish_revert_migration">>}
                                                 ELSE {})
                                           \cup (IF resume
                                                 THEN {<<i, "resume_state_on_host_boot">>}
                                                 ELSE {})]]
        /\ UNCHANGED <<quota, migration, tracker, lock, bdms>>

\* what the records can show when the service starts: each instance on this
\* host or another, idle or caught by the crash in the middle of a resize,
\* or (soft-)deleted
BootStates ==
    {<<"active", None>>, <<"active", "resize_migrating">>,
     <<"soft-delete", None>>, <<"deleted", None>>}

InitBoot ==
    /\ instances \in
          [Instances ->
              {[NewInstance(st[1], st[2]) EXCEPT !.host = h, !.power_state = p] :
                   st \in BootStates, h \in Hosts, p \in {"running", "shutdown"}}]
    /\ calls = [c \in CallIds |-> IdleCall]
    /\ quota = NoQuota
    /\ migration = NoMigration
    /\ tracker = NoTracker
    /\ lock = [i \in Instances |-> "none"]
    /\ bdms = [i \in Instances |-> 0]
    /\ resource_tracker_dict = NoTrackers

\* the service starts once
NextBoot ==
    \/ /\ UNCHANGED resource_tracker_dict
       /\ \E reported \in SUBSET Instances, uuids \in BOOLEAN :
              init_host("r1", reported, uuids)
    \/ /\ UNCHANGED resource_tracker_dict
       /\ destroy_evacuated("r1")
    \/ /\ UNCHANGED resource_tracker_dict
       /\ init_next("r1")
    \/ /\ UNCHANGED resource_tracker_dict
       /\ init_instance("r1")

SpecBoot == InitBoot /\ [][NextBoot]_vars

-----------------------------------------------------------------------------
(* Snapshots preempted by a delete *)

\* a snapshot or a backup of i1 while it may be deleted
NextSnapshot ==
    \/ /\ UNCHANGED resource_tracker_dict
       /\ Observed /\ \E t \in {"snapshot", "backup"}, r \in {{}, {1}},
                         e \in {{}, {1, 2}} :
                         StartSnapshot("w1", "i1", t, r, e)
    \/ /\ UNCHANGED resource_tracker_dict
       /\ Observed /\ StartTerminate("t1", "i1")
    \/ /\ UNCHANGED resource_tracker_dict
       /\ Observed /\ \/ snapshot_refresh("w1") \/ snapshot_pending_upload("w1")
                      \/ snapshot_uploading("w1") \/ snapshot_upload("w1")
                      \/ snapshot_final("w1")
    \/ /\ UNCHANGED resource_tracker_dict
       /\ Observed /\ (rotate_backups("w1") \/ rotate_delete("w1"))
    \/ /\ UNCHANGED resource_tracker_dict
       /\ Observed /\ reverts_task_state("w1")
    \/ /\ UNCHANGED resource_tracker_dict
       /\ Observed /\ DeleteStep("t1")
    \/ /\ UNCHANGED resource_tracker_dict
       /\ \E c \in {"w1", "t1"} : Return(c)

SpecSnapshot == InitRotate /\ [][NextSnapshot]_vars

-----------------------------------------------------------------------------
(* The reservations of one request *)

\* no request has been given reservations yet
Unissued ==
    /\ quota = NoQuota
    /\ ~migration.reservations
    /\ \A c \in CallIds : ~calls[c].reservations

\* the steps cast to the source host of a resize
SourceSteps == {"resize_instance", "finish_revert_resize"}

\* whether a new request may carry the reservations that are followed
Issuable == IF Unissued THEN BOOLEAN ELSE {FALSE}

\* resizes, confirms and reverts of i1 of which one request carries quota
\* reservations; quota then counts the commits and rollbacks of those.  The
\* destination host (slot w1) and the source host (slot b1) take up what is
\* cast to them while the casting host is still in its own step
NextQuota ==
    \/ /\ UNCHANGED resource_tracker_dict
       /\ Observed /\ \E h \in Hosts, r \in Issuable, y \in BOOLEAN :
                          StartPrepResize("w1", "i1", h, "B", r, y)
    \/ /\ UNCHANGED resource_tracker_dict
       /\ Observed /\ \E c \in {"w1", "b1"} :
                          /\ (c = "b1") <=> (migration.next \in SourceSteps)
                          /\ StartCast(c, "i1")
    \/ /\ UNCHANGED resource_tracker_dict
       /\ Observed /\ \E r \in Issuable : StartConfirmResize("w1", "i1", r)
    \/ /\ UNCHANGED resource_tracker_dict
       /\ Observed /\ \E r \in Issuable : StartRevertResize("w1", "i1", r)
    \/ /\ UNCHANGED resource_tracker_dict
       /\ Observed /\ \E c \in {"w1", "b1"} : ResizeStep(c)
    \/ /\ UNCHANGED resource_tracker_dict
       /\ \E c \in {"w1", "b1"} : Returned(c)

SpecQuota == InitResize /\ [][NextQuota]_vars

-----------------------------------------------------------------------------
(* The registry of resource trackers *)

\* the node names a driver can report
Nodes == {"n1", "n2"}

\* resource trackers are created at most this many times
MaxTrackers == 3

\* self._resource_tracker_dict.keys()
known_nodes(d) == {p[1] : p \in d}

\* self._resource_tracker_dict.get(nodename): the trackers found, none or one
dict_get(d, nodename) == {p \in d : p[1] = nodename}

\* self._resource_tracker_dict[nodename] = rt
dict_set(d, nodename, rt) == (d \ dict_get(d, nodename)) \cup {<<nodename, rt>>}

\* _get_resource_tracker(nodename) called by a request of call c: look the
\* tracker up; when there is none the driver is asked for its nodes, at which
\* other greenthreads run
get_resource_tracker(c, nodename) ==
    /\ calls[c].pc = "idle"
    /\ LET found == dict_get(resource_tracker_dict.dict, nodename)
           started == [IdleCall EXCEPT !.wf = "_get_resource_tracker",
                                       !.nodename = nodename]
       IN  calls' = [calls EXCEPT ![c] =
               IF found # {}
               THEN [started EXCEPT !.rt = (CHOOSE p \in found : TRUE)[2],
                                    !.pc = "returned"]
               ELSE [started EXCEPT !.pc = "get_available_nodes"]]
    /\ UNCHANGED <<instances, quota, migration, tracker, lock, bdms,
                   resource_tracker_dict>>

\* the rest of _get_resource_tracker once self.driver.get_available_nodes()
\* has answered avail: NovaException for a node the driver does not report,
\* else a new ResourceTracker stored under the node name; okpc is where the
\* caller goes on
create_resource_tracker(c, avail, okpc) ==
    LET cr == calls[c]
        rt == resource_tracker_dict.created + 1
    IN  IF cr.nodename \notin avail
        THEN /\ calls' = [calls EXCEPT ![c] =
                     [cr EXCEPT !.reported = avail, !.exc = "NovaException",
                                !.pc = "raised"]]
             /\ UNCHANGED resource_tracker_dict
        ELSE /\ resource_tracker_dict.created < MaxTrackers
             /\ resource_tracker_dict' =
                    [dict |-> dict_set(resource_tracker_dict.dict,
                                       cr.nodename, rt),
                     created |-> rt]
             /\ calls' = [calls EXCEPT ![c] =
                     [cr EXCEPT !.reported = avail, !.rt = rt, !.pc = okpc]]

get_available_nodes(c) ==
    /\ calls[c].pc = "get_available_nodes"
    /\ \E avail \in SUBSET Nodes : create_resource_tracker(c, avail, "returned")
    /\ UNCHANGED <<instances, quota, migration, tracker, lock, bdms>>

\* update_available_resource begins: the periodic task reads the driver's
\* nodes once
update_available_resource_pass(r, nodenames) ==
    /\ calls[r].pc = "idle"
    /\ calls' = [calls EXCEPT ![r] =
           [IdleCall EXCEPT !.wf = "update_available_resource",
                            !.nodenames = nodenames, !.todo = nodenames,
                            !.pc = "for_nodename"]]
    /\ UNCHANGED <<instances, quota, migration, tracker, lock, bdms,
                   resource_tracker_dict>>

\* for nodename in nodenames: rt = self._get_resource_tracker(nodename); after
\* the loop known_nodes - nodenames is what is left to delete
for_nodename(r) ==
    /\ calls[r].pc = "for_nodename"
    /\ LET cr == calls[r]
       IN  IF cr.todo = {}
           THEN calls' = [calls EXCEPT ![r] =
                    [cr EXCEPT !.todo = known_nodes(resource_tracker_dict.dict)
                                            \ cr.nodenames,
                               !.pc = "for_deleted"]]
           ELSE \E nodename \in cr.todo :
                    LET found == dict_get(resource_tracker_dict.dict, nodename)
                        next == [cr EXCEPT !.nodename = nodename]
                    IN  calls' = [calls EXCEPT ![r] =
                            IF found # {}
                            THEN [next EXCEPT
                                     !.rt = (CHOOSE p \in found : TRUE)[2],
                                     !.pc = "rt_update"]
                            ELSE [next EXCEPT !.pc = "pass_available_nodes"]]
    /\ UNCHANGED <<instances, quota, migration, tracker, lock, bdms,
                   resource_tracker_dict>>

\* _get_resource_tracker inside the pass asks the driver again
pass_available_nodes(r) ==
    /\ calls[r].pc = "pass_available_nodes"
    /\ \E avail \in SUBSET Nodes : create_resource_tracker(r, avail, "rt_update")
    /\ UNCHANGED <<instances, quota, migration, tracker, lock, bdms>>

\* rt.update_available_resource(context), which may raise, then
\* new_resource_tracker_dict[nodename] = rt
rt_update(r) ==
    /\ calls[r].pc = "rt_update"
    /\ LET cr == calls[r]
       IN  \E ok \in BOOLEAN :
               calls' = [calls EXCEPT ![r] =
                   IF ok
                   THEN [cr EXCEPT
                            !.new_resource_tracker_dict =
                                dict_set(@, cr.nodename, cr.rt),
                            !.todo = @ \ {cr.nodename},
                            !.pc = "for_nodename"]
                   ELSE [cr EXCEPT !.exc = "Exception", !.pc = "raised"]]
    /\ UNCHANGED <<instances, quota, migration, tracker, lock, bdms,
                   resource_tracker_dict>>

\* for nodename in known_nodes - nodenames: the tracker is told to delete its
\* record, which may raise; then
\* self._resource_tracker_dict = new_resource_tracker_dict
for_deleted(r) ==
    /\ calls[r].pc = "for_deleted"
    /\ LET cr == calls[r]
       IN  IF cr.todo = {}
           THEN /\ resource_tracker_dict' =
                       [resource_tracker_dict EXCEPT
                           !.dict = cr.new_resource_tracker_dict]
                /\ calls' = [calls EXCEPT ![r] = [cr EXCEPT !.pc = "returned"]]
           ELSE /\ \E nodename \in cr.todo, ok \in BOOLEAN :
                       calls' = [calls EXCEPT ![r] =
                           IF ok
                           THEN [cr EXCEPT !.todo = @ \ {nodename}]
                           ELSE [cr EXCEPT !.exc = "Exception",
                                           !.pc = "raised"]]
                /\ UNCHANGED resource_tracker_dict
    /\ UNCHANGED <<instances, quota, migration, tracker, lock, bdms>>

\* a caller or the periodic task is done
registry_return(c) ==
    /\ Returned(c)
    /\ UNCHANGED resource_tracker_dict

\* requests that need a node's tracker arrive while the periodic task runs
NextRegistry ==
    \/ \E c \in {"w1", "b1"}, nodename \in Nodes :
           Observed /\ get_resource_tracker(c, nodename)
    \/ \E c \in {"w1", "b1"} : Observed /\ get_available_nodes(c)
    \/ \E nodenames \in SUBSET Nodes :
           Observed /\ update_available_resource_pass("r1", nodenames)
    \/ Observed /\ for_nodename("r1")
    \/ Observed /\ pass_available_nodes("r1")
    \/ Observed /\ rt_update("r1")
    \/ Observed /\ for_deleted("r1")
    \/ \E c \in {"w1", "b1", "r1"} : registry_return(c)

SpecRegistry == Init /\ [][NextRegistry]_vars

-----------------------------------------------------------------------------
(* Properties of the lifecycle specification Spec *)

\* the workflows the task-state contract names (every orchestrated workflow
\* but terminate_instance)
ContractWorkflows ==
    SimpleWorkflows \cup
    {"run_instance", "rebuild_instance", "reboot_instance", "snapshot_instance",
     "resize_instance", "finish_resize", "confirm_resize", "revert_resize",
     "finish_revert_resize"}

\* the workflows whose body ends with an update writing task_state=None
NullOnReturn ==
    ContractWorkflows \ {"resize_instance", "revert_resize", "confirm_resize"}

\* C1 as stated: whenever a workflow other than terminate_instance returns
\* successfully, or fails with the instance forced to ERROR, task_state is
\* null when the workflow exits.
C1_NullAtEveryExit ==
    \A c \in CallIds :
        (/\ calls[c].wf \in ContractWorkflows
         /\ calls[c].pc \in Terminal
         /\ (calls[c].pc = "returned" \/ calls[c].errored))
        => calls[c].exit_ts = None

\* C1 as the code has it: a workflow whose body ends with a task_state=None
\* update and that returns without having caught an exception has written
\* task_state null last; a workflow decorated with reverts_task_state that
\* fails with anything but UnexpectedTaskStateError leaves task_state null at
\* exit, if the instance still exists.
C1_NullWhereReset ==
    \A c \in CallIds :
        /\ (/\ calls[c].wf \in NullOnReturn
            /\ calls[c].pc = "returned"
            /\ calls[c].exc = "none"
            /\ ~instances[calls[c].inst].deleted)
           => calls[c].last_ts = None
        /\ (/\ calls[c].wf \in ContractWorkflows \cap RevertsTaskState
            /\ calls[c].pc = "raised"
            /\ calls[c].exc # "UnexpectedTaskStateError"
            /\ ~instances[calls[c].inst].deleted)
           => calls[c].exit_ts = None

\* a workflow has forced the instance to ERROR, failed, and left task_state null
C1_Witness ==
    \E c \in CallIds :
        /\ calls[c].wf \in ContractWorkflows
        /\ calls[c].pc = "raised"
        /\ calls[c].errored
        /\ calls[c].exc = "Error"
        /\ calls[c].entry_ts # None
        /\ calls[c].exit_ts = None

\* the steps of terminate_instance before the DELETED update
BeforeDeleted ==
    {"shutdown_network", "shutdown_set_error", "shutdown_destroy",
     "terminate_set_error", "shutdown_volumes"}

\* C2: no step of terminate_instance before its final DELETED update, its
\* failure paths included, changes the instance's task_state, also when the
\* step sets vm_state to ERROR; a terminate_instance that has failed has
\* written no task_state.
C2_TerminateFailureKeepsTaskState ==
    [][\A c \in CallIds :
          /\ (/\ calls[c].wf = "terminate_instance"
              /\ calls[c].pc \in BeforeDeleted
              /\ calls'[c] # calls[c])
             => instances'[calls[c].inst].task_state
                    = instances[calls[c].inst].task_state
          /\ (/\ calls'[c].wf = "terminate_instance"
              /\ calls'[c].pc \in Terminal
              /\ calls'[c].exc # "none")
             => calls'[c].last_ts = "unwritten"]_vars

\* terminate_instance has failed with the instance set to ERROR and the
\* task_state still DELETING
C2_Witness ==
    \E c \in CallIds :
        /\ calls[c].wf = "terminate_instance"
        /\ calls[c].pc \in Terminal
        /\ calls[c].errored
        /\ calls[c].exit_vm = "error"
        /\ calls[c].exit_ts = "deleting"

\* the steps inside the body of a resource claim
ClaimBody ==
    {"allocate_network_update", "allocate_network", "block_device_mapping",
     "prep_block_device", "spawning", "spawn", "spawn_active",
     "prep_resize_cast"}

\* the kind of claim a workflow makes
ClaimKind(wf) == IF wf = "prep_resize" THEN "resize" ELSE "build"

\* C9: a claim granted to run_instance or prep_resize is held only inside the
\* claim's body: when a handler runs (reschedule, ERROR handling) or the
\* workflow has exited, the claim was confirmed (the body completed) or
\* reverted (the body raised) and the tracker no longer shows it as held.
C9_ClaimResolvedAtExit ==
    /\ \A c \in CallIds :
        /\ calls[c].claim = "claimed" => calls[c].pc \in ClaimBody
        /\ calls[c].claim = "confirmed" =>
               IF calls[c].wf = "run_instance" THEN "spawn" \in calls[c].invoked
               ELSE calls[c].pc \notin
                        ClaimBody \cup {"prep_resize_checks", "prep_resize_claim",
                                        "reschedule", "reschedule_cast"}
        /\ calls[c].claim = "reverted" =>
               /\ calls[c].exc # "none"
               /\ tracker[calls[c].inst][ClaimKind(calls[c].wf)].state = "none"
    /\ \A i \in Instances, k \in ClaimKinds :
        tracker[i][k].state = "claimed" =>
            \E c \in CallIds : /\ calls[c].inst = i
                               /\ ClaimKind(calls[c].wf) = k
                               /\ calls[c].claim = "claimed"

\* a build whose body raised runs its reschedule handler with the claim reverted
C9_Witness ==
    \E c \in CallIds :
        /\ calls[c].wf = "run_instance"
        /\ calls[c].pc = "reschedule"
        /\ "allocate_network" \in calls[c].invoked
        /\ calls[c].claim = "reverted"

-----------------------------------------------------------------------------
(* Properties of the build *)

\* C3: run_instance invokes nothing of the body of its claim (network
\* allocation, block-device setup, spawn) and writes none of the body's task
\* states unless the claim was granted; an attempt whose claim was refused
\* never invokes them.
C3_BodyOnlyAfterClaim ==
    \A c \in CallIds :
        (calls[c].wf = "run_instance" /\ calls[c].claim \in {"none", "refused"})
        => /\ calls[c].invoked = {}
           /\ calls[c].pc \notin ClaimBody
           /\ calls[c].last_ts \notin {"networking", "block_device_mapping",
                                       "spawning"}

\* a build whose claim was refused has finished and invoked nothing of the body
C3_Witness ==
    \E c \in CallIds :
        /\ calls[c].wf = "run_instance"
        /\ calls[c].claim = "refused"
        /\ calls[c].pc \in Terminal
        /\ calls[c].invoked = {}

\* C4: when run_instance returns or raises, the instance is ACTIVE with
\* task_state null, or ERROR, or SCHEDULING after a reschedule, or a delete
\* has taken it over (task_state DELETING, or deleted); it is never left
\* BUILDING with a task_state of the build.
C4_BuildExitStates ==
    \A c \in CallIds :
        (calls[c].wf = "run_instance" /\ calls[c].pc \in Terminal)
        => LET r == instances[calls[c].inst]
           IN  \/ r.vm_state = "active" /\ r.task_state = None
               \/ r.vm_state = "error"
               \/ calls[c].resubmitted = 1 /\ r.task_state = "scheduling"
               \/ r.task_state = "deleting"
               \/ r.vm_state = "deleted" \/ r.deleted

\* a build has ended silently because a delete took the instance over
C4_Witness ==
    \E c \in CallIds :
        /\ calls[c].wf = "run_instance"
        /\ calls[c].pc = "returned"
        /\ calls[c].exc = "UnexpectedTaskStateError"
        /\ "allocate_network" \in calls[c].invoked
        /\ calls[c].exit_vm = "building"
        /\ calls[c].exit_ts = "deleting"

\* the steps of run_instance between taking and releasing the lock of the UUID
RunBody ==
    ClaimBody \cup {"run_checks", "start_building", "instance_claim",
                    "run_success", "run_notfound_dealloc",
                    "reschedule_or_reraise", "reschedule", "reschedule_cast",
                    "run_set_error"}

InRunInstance(c) == calls[c].wf = "run_instance" /\ calls[c].pc \in RunBody

\* C5: two run_instance calls for the same UUID are never inside
\* _run_instance at the same time, and the one inside holds the lock of the
\* UUID; calls for different UUIDs are not kept apart.
C5_OneBuildPerUuid ==
    \A c \in CallIds :
        InRunInstance(c) =>
            /\ lock[calls[c].inst] = c
            /\ \A d \in CallIds \ {c} :
                   InRunInstance(d) => calls[d].inst # calls[c].inst

\* two builds of different UUIDs are both inside the body of their claims
C5_Witness ==
    \E c \in CallIds, d \in CallIds :
        /\ InRunInstance(c) /\ InRunInstance(d)
        /\ calls[c].inst # calls[d].inst
        /\ calls[c].claim = "claimed" /\ calls[d].claim = "claimed"

FailedInClaim(c) ==
    /\ calls[c].wf = "run_instance"
    /\ calls[c].pc \in Terminal
    /\ calls[c].claim = "reverted"

-----------------------------------------------------------------------------
(* Properties of the workflows that change an instance's structure *)

\* the steps in which a workflow mutates the instance
MutatingBody(wf) ==
    CASE wf = "run_instance" -> RunBody
      [] wf = "terminate_instance" ->
             BeforeDeleted \cup {"delete_update", "instance_destroy"}
      [] wf = "reserve_block_device_name" -> {"reserve_create"}
      [] wf = "attach_volume" -> {"attach_driver", "attach_bdm", "attach_rollback"}
      [] wf = "detach_volume" -> {"detach_driver", "detach_bdm"}
      [] OTHER -> {}

InMutatingBody(c) == calls[c].pc \in MutatingBody(calls[c].wf)

\* C6 as stated: for a UUID at most one of run_instance, terminate_instance,
\* attach_volume, detach_volume and reserve_block_device_name is in its
\* instance-mutating body at a time, and the one that is holds the lock of
\* the UUID.
C6_StructuralMutualExclusion ==
    \A c \in CallIds :
        InMutatingBody(c) =>
            /\ lock[calls[c].inst] = c
            /\ \A d \in CallIds \ {c} :
                   InMutatingBody(d) => calls[d].inst # calls[c].inst

\* _delete_instance is in progress in slot c
InDeleteInstance(c) ==
    /\ calls[c].wf \in DeleteWorkflows
    /\ calls[c].pc \in BeforeDeleted \cup {"delete_update", "instance_destroy"}

\* C7 as stated: for a UUID at most one _delete_instance is in progress,
\* whether entered from terminate_instance or from _reclaim_queued_deletes,
\* and none while a build of the same instance is inside _run_instance.
C7_OneDeletePerUuid ==
    \A c \in CallIds :
        InDeleteInstance(c) =>
            \A d \in CallIds \ {c} :
                (InDeleteInstance(d) \/ InRunInstance(d))
                => calls[d].inst # calls[c].inst

-----------------------------------------------------------------------------
(* Properties of the failure handling of the build *)

\* C11 as stated: when a failed build is not rescheduled, the exception that
\* reaches the caller of run_instance is the build's own exception, never
\* one raised while the failure was handled.
C11_OriginalExceptionRaised ==
    \A c \in CallIds :
        (/\ calls[c].wf = "run_instance"
         /\ calls[c].pc = "raised"
         /\ calls[c].build_exc # "none"
         /\ calls[c].resubmitted = 0)
        => calls[c].exc = calls[c].build_exc

\* a build was overtaken by a delete inside the body of its claim: an update
\* raised InstanceNotFound, or UnexpectedTaskStateError with DELETING found
OvertakenByDelete(c) ==
    /\ calls[c].wf = "run_instance"
    /\ calls[c].pc \in Terminal
    /\ \/ calls[c].build_exc = "InstanceNotFound"
       \/ /\ calls[c].build_exc = "UnexpectedTaskStateError"
          /\ calls[c].exit_ts = "deleting"

\* C12 as stated: a build overtaken by a delete inside its claimed region
\* aborts silently: the network is deallocated, vm_state is not set to ERROR,
\* nothing is rescheduled and no exception reaches the caller.
C12_SilentAbortOnDelete ==
    \A c \in CallIds :
        OvertakenByDelete(c) =>
            /\ calls[c].deallocated
            /\ ~calls[c].errored
            /\ calls[c].resubmitted = 0
            /\ calls[c].pc = "returned"

-----------------------------------------------------------------------------
(* Properties of the updates under a task-state race *)

\* C13 as stated: once a conditional update of a workflow has failed with
\* UnexpectedTaskStateError, no later step of that workflow writes the
\* instance's vm_state or task_state: what the preempting operation set is
\* intact at exit and the instance is not forced to ERROR.
C13_NoWriteAfterRace ==
    [][\A c \in CallIds :
          (/\ calls[c].exc = "UnexpectedTaskStateError"
           /\ calls[c].pc \notin Terminal \cup {"idle"}
           /\ calls'[c] # calls[c])
          => /\ instances'[calls[c].inst].vm_state
                    = instances[calls[c].inst].vm_state
             /\ instances'[calls[c].inst].task_state
                    = instances[calls[c].inst].task_state]_vars

\* C14 as stated: every write of the build to vm_state/task_state expects
\* the task_state the build last set, so once another operation has set
\* task_state DELETING no later step inside _run_instance overwrites it.
C14_BuildKeepsDeleting ==
    [][\A c \in CallIds :
          (/\ calls[c].wf = "run_instance"
           /\ calls'[c] # calls[c]
           /\ calls[c].pc \in RunBody
           /\ instances[calls[c].inst].task_state = "deleting")
          => instances'[calls[c].inst].task_state = "deleting"]_vars

-----------------------------------------------------------------------------
(* Properties of the error handling of the lifecycle workflows *)

\* the hypervisor-driver call of a linear workflow or of reboot_instance has
\* raised an ordinary exception (the fallback primitive's included)
DriverRaised(c) ==
    \/ calls[c].wf \in SimpleWorkflows /\ calls[c].exc = "Error"
    \/ calls[c].wf = "reboot_instance" /\ calls[c].driver_failed

\* C15 as stated: when the driver call of a workflow raises an ordinary
\* exception and nothing reschedules, the instance ends in vm_state ERROR and
\* the exception is re-raised to the caller; checked for the linear
\* workflows and reboot_instance.
C15_DriverFailureErrorsOut ==
    \A c \in CallIds :
        (calls[c].pc \in Terminal /\ DriverRaised(c))
        => /\ calls[c].pc = "raised"
           /\ calls[c].errored \/ instances[calls[c].inst].deleted

\* the workflows of a resize
\* C16 as stated: when a resize-family workflow raises (prep_resize: without
\* a reschedule), the pending quota reservations were rolled back and the
\* instance set to ERROR before the exception reached the caller, and the
\* exception is the workflow's own, also when the quota rollback itself fails.
C16_ResizeFailureRollsBack ==
    \A c \in CallIds :
        (/\ calls[c].wf \in ResizeFamily
         /\ calls[c].pc = "raised"
         /\ calls[c].resubmitted = 0)
        => /\ calls[c].reservations => calls[c].rollback # "none"
           /\ calls[c].errored \/ instances[calls[c].inst].deleted
           /\ calls[c].exc # "QuotaRollbackError"

\* C17 as stated: after driver.migrate_disk_and_power_off raised in
\* resize_instance, the instance is in ERROR, the claim prep_resize took on the
\* destination node is reverted and the quota reservation is rolled back.
C17_FailedMigrationReleasesAll ==
    \A c \in CallIds :
        (/\ calls[c].wf = "resize_instance"
         /\ calls[c].pc \in Terminal
         /\ calls[c].driver_failed)
        => /\ calls[c].errored \/ instances[calls[c].inst].deleted
           /\ tracker[calls[c].inst].resize.state = "none"
           /\ calls[c].reservations => calls[c].rollback = "done"

\* C18 as stated: terminate_instance on an instance that is already DELETED
\* is a no-op: past its lock it deallocates no network, destroys nothing on
\* the driver, touches no volume and no record, and returns without raising.
C18_TerminateDeletedIsNoOp ==
    \A c \in CallIds :
        (calls[c].wf = "terminate_instance" /\ calls[c].orig_vm_state = "deleted")
        => calls[c].pc \in {"terminate_lock", "shutdown_network", "returned"}

\* C19 as stated: a failure of a volume-service call during
\* terminate_instance never prevents the instance from being marked DELETED
\* and its block device mappings from being destroyed.
C19_VolumeFailureNeverBlocksDelete ==
    \A c \in CallIds :
        (/\ calls[c].wf = "terminate_instance"
         /\ calls[c].pc \in Terminal
         /\ calls[c].exc = "VolumeError")
        => /\ instances[calls[c].inst].vm_state = "deleted"
           /\ instances[calls[c].inst].deleted
           /\ bdms[calls[c].inst] = 0

-----------------------------------------------------------------------------
(* Properties of the power-state reconciliation SpecSync *)

\* the pairs for which the reconciliation table asks for the stop workflow
ShouldStop(vm_state, vm_power_state) ==
    \/ vm_state = "active" /\ vm_power_state \in {"shutdown", "crashed", "suspended"}
    \/ vm_state = "stopped" /\ vm_power_state \notin {"nostate", "shutdown", "crashed"}

\* C20: a reconciliation pass over an instance of this host with task_state
\* null calls the stop workflow exactly once when vm_state is ACTIVE and the
\* observed power_state SHUTDOWN, CRASHED or SUSPENDED, or vm_state is STOPPED
\* and the power_state none of NOSTATE, SHUTDOWN, CRASHED; else not at all.
C20_StopExactlyWhenTableSays ==
    [][\A c \in CallIds :
        (/\ calls[c].pc = "sync_instance_power_state"
         /\ calls'[c].pc = "returned"
         /\ instances[calls[c].inst].host = "h1"
         /\ instances[calls[c].inst].task_state = None)
        => calls'[c].stops =
              IF ShouldStop(instances[calls[c].inst].vm_state,
                            calls[c].vm_power_state)
              THEN 1 ELSE 0]_vars

\* a pass has found a STOPPED instance running and called stop once
C20_Witness ==
    \E c \in CallIds :
        /\ calls[c].wf = "_sync_power_states" /\ calls[c].pc = "returned"
        /\ instances[calls[c].inst].vm_state = "stopped"
        /\ calls[c].vm_power_state = "running"
        /\ calls[c].stops = 1

\* C21: a reconciliation (periodic pass or lifecycle event) of an instance
\* whose record, read again, has a pending task or another host writes nothing
\* to the record and calls no stop.
C21_SkippedInstanceUntouched ==
    [][\A c \in CallIds :
        (/\ calls[c].pc = "sync_instance_power_state"
         /\ calls'[c] # calls[c]
         /\ \/ instances[calls[c].inst].task_state # None
            \/ instances[calls[c].inst].host # "h1")
        => /\ instances' = instances
           /\ calls'[c].stops = 0
           /\ calls'[c].pc = "returned"]_vars

\* a lifecycle event has been handled for an instance with a pending task
C21_Witness ==
    \E c \in CallIds :
        /\ calls[c].wf = "handle_lifecycle_event" /\ calls[c].pc = "returned"
        /\ calls[c].vm_power_state = "shutdown"
        /\ instances[calls[c].inst].vm_state = "active"
        /\ instances[calls[c].inst].task_state = "migrating"
        /\ instances[calls[c].inst].power_state = "running"

\* C22: for an instance the reconciliation does not skip, whatever its
\* vm_state, the record's power_state afterwards is the observed one, and
\* vm_state, host and existence are as before; task_state changes only by the
\* stop request the stop API accepted.
C22_PowerStateWrittenThrough ==
    [][\A c \in CallIds :
        (/\ calls[c].pc = "sync_instance_power_state"
         /\ calls'[c] # calls[c]
         /\ instances[calls[c].inst].task_state = None
         /\ instances[calls[c].inst].host = "h1")
        => LET old == instances[calls[c].inst]
               new == instances'[calls[c].inst]
           IN  /\ new.power_state = calls[c].vm_power_state
               /\ [new EXCEPT !.power_state = old.power_state,
                              !.task_state = old.task_state] = old
               /\ new.task_state # old.task_state => calls'[c].stops = 1
               /\ \A j \in Instances \ {calls[c].inst} :
                      instances'[j] = instances[j]]_vars

\* an instance in an ignored vm_state has got the observed power_state
C22_Witness ==
    \E c \in CallIds :
        /\ calls[c].wf \in Reconcilers /\ calls[c].pc = "returned"
        /\ instances[calls[c].inst].vm_state = "paused"
        /\ instances[calls[c].inst].task_state = None
        /\ instances[calls[c].inst].host = "h1"
        /\ calls[c].vm_power_state = "shutdown"
        /\ instances[calls[c].inst].power_state = "shutdown"

-----------------------------------------------------------------------------
(* Properties of the backup rotation SpecRotate *)

\* the k oldest of the backups S
Oldest(S, k) == {x \in S : Cardinality({y \in S : y < x}) < k}

\* the backups a call has deleted
Deleted(c) == {calls[c].deleted_images[k] : k \in 1..Len(calls[c].deleted_images)}

\* C23: a backup snapshot with rotation R that returns, N backups existing,
\* has deleted exactly the N-R oldest when N > R (all of them when R = 0)
\* and none when N <= R, each once.
C23_RotationKeepsNewest ==
    \A c \in CallIds :
        (/\ calls[c].wf = "snapshot_instance" /\ calls[c].image_type = "backup"
         /\ calls[c].pc = "returned"
         /\ calls[c].exc = "none")
        => LET N == Cardinality(calls[c].existing)
               R == RotationOf(calls[c].rotation)
           IN  /\ Deleted(c) = IF N > R THEN Oldest(calls[c].existing, N - R) ELSE {}
               /\ Len(calls[c].deleted_images) = Cardinality(Deleted(c))
               /\ R = 0 => Deleted(c) = calls[c].existing

\* four backups existed and a backup with rotation 2 has deleted the two oldest
C23_Witness ==
    \E c \in CallIds :
        /\ calls[c].wf = "snapshot_instance" /\ calls[c].pc = "returned"
        /\ calls[c].existing = {1, 2, 3, 4}
        /\ calls[c].rotation = {2}
        /\ calls[c].deleted_images = <<1, 2>>

-----------------------------------------------------------------------------
(* Further properties of the lifecycle specification Spec *)

\* C24 as stated: the final update of stop, start, pause, unpause, suspend,
\* resume, rescue, unrescue, soft-delete and restore is rejected when
\* task_state is no longer the workflow's own tag, and the record stays as the
\* concurrent operation left it.
C24_FinalUpdateGuarded ==
    [][\A c \in CallIds :
        (/\ calls[c].wf \in SimpleWorkflows
         /\ calls[c].pc = "final_update"
         /\ calls'[c] # calls[c]
         /\ instances[calls[c].inst].task_state # calls[c].entry_ts)
        => /\ instances'[calls[c].inst] = instances[calls[c].inst]
           /\ calls'[c].pc # "returned"]_vars

C26_RebuildRestoresStopped ==
    \A c \in CallIds :
        (/\ calls[c].wf = "rebuild_instance"
         /\ calls[c].pc \in Terminal
         /\ "spawn" \in calls[c].invoked
         /\ calls[c].exc \notin {"UnexpectedTaskStateError", "InstanceNotFound"})
        => /\ calls[c].pc = "returned"
           /\ calls[c].exit_vm = IF calls[c].orig_vm_state = "stopped"
                                 THEN "stopped" ELSE "active"
           /\ calls[c].exit_ts = None

\* the manager methods that carry a resize forward
ResizeChain == {"prep_resize", "resize_instance", "finish_resize"}

\* the order of the task_state of a resize, and of the status of its
\* migration, which the resize claim creates as pre-migrating
ResizeTaskOrder ==
    {<<"resize_prep", "resize_migrating">>, <<"resize_migrating", "resize_migrated">>,
     <<"resize_migrated", "resize_finish">>, <<"resize_finish", None>>}

MigrationStatusOrder ==
    {<<"none", "pre-migrating">>, <<"pre-migrating", "migrating">>, <<"migrating", "post-migrating">>,
     <<"post-migrating", "finished">>}

\* C27: every step of a resize taken while no exception is being handled
\* that changes task_state moves it one place along
\* RESIZE_PREP, RESIZE_MIGRATING, RESIZE_MIGRATED, RESIZE_FINISH, null, from
\* the preceding value, the last together with vm_state RESIZED; the migration
\* status moves along migrating, post-migrating, finished; the host is
\* switched to the destination only with the status post-migrating, and
\* RESIZED is only set with the status finished.
C27_ResizeAdvancesInOrder ==
    [][\A c \in CallIds :
        (/\ calls[c].wf \in ResizeChain
         /\ calls'[c] # calls[c]
         /\ calls[c].pc \notin Terminal
         /\ calls[c].exc = "none")
        => LET old == instances[calls[c].inst]
               new == instances'[calls[c].inst]
           IN  /\ new.task_state # old.task_state
                    => /\ <<old.task_state, new.task_state>> \in ResizeTaskOrder
                       /\ new.task_state = None => new.vm_state = "resized"
               /\ migration'.status # migration.status
                    => <<migration.status, migration'.status>> \in MigrationStatusOrder
               /\ new.host # old.host
                    => /\ migration'.status = "post-migrating"
                       /\ new.host = migration.dest
               /\ (new.vm_state = "resized" /\ old.vm_state # "resized")
                    => /\ migration'.status = "finished"
                       /\ old.task_state = "resize_finish"]_vars

\* a resize has gone through: finish_resize has returned with the instance
\* RESIZED on the destination and the migration finished
C27_Witness ==
    \E c \in CallIds :
        /\ calls[c].wf = "finish_resize" /\ calls[c].pc = "returned"
        /\ instances[calls[c].inst].vm_state = "resized"
        /\ instances[calls[c].inst].task_state = None
        /\ instances[calls[c].inst].host = migration.dest
        /\ migration.dest # migration.source
        /\ migration.status = "finished"

\* a step of a manager method or of a periodic task: no request or cast starts
\* a manager method in it
ManagerStep ==
    \A c \in CallIds :
        (calls[c].pc = "idle" /\ calls'[c].pc # "idle")
        => calls'[c].wf = "_poll_unconfirmed_resizes"

\* C28 as stated: no step of a workflow or of a periodic task changes the
\* status of a migration that is finished or error, and when a manager method
\* of a resize raises, the migration of that resize is left in status error.
C28_FinishedAndErrorAreTerminal ==
    [][/\ (ManagerStep /\ migration.status \in {"finished", "error"})
           => migration'.status = migration.status
       /\ \A c \in CallIds :
           (/\ calls[c].wf \in ResizeChain
            /\ calls[c].pc # "raised" /\ calls'[c].pc = "raised"
            /\ migration.status # "none")
           => migration'.status = "error"]_vars

\* C29 as stated: no step of a workflow or of a periodic task changes the
\* vm_state or the task_state of an instance whose vm_state is DELETED.
C29_DeletedIsTerminal ==
    [][\A i \in Instances :
           (ManagerStep /\ instances[i].vm_state = "deleted")
           => /\ instances'[i].vm_state = "deleted"
              /\ instances'[i].task_state = instances[i].task_state]_vars

\* C30 as stated: a pass of _reclaim_queued_deletes never raises to its
\* caller, and when it ends _delete_instance has run to its end or been
\* skipped for every instance of the pass: none is left unvisited.
C30_JanitorPassCompletes ==
    \A c \in CallIds :
        (calls[c].wf = "_reclaim_queued_deletes" /\ calls[c].pc \in Terminal)
        => /\ calls[c].pc = "returned"
           /\ calls[c].todo = {}

\* C31: a pass of _poll_unconfirmed_resizes over a migration that is
\* 'finished' does nothing with resize_confirm_window = 0; else it asks for
\* the confirm exactly when the instance exists with vm_state RESIZED and
\* task_state null, and sets the migration to 'error' exactly when it does
\* not; a confirm that fails leaves migration and instance as they were.
C31_SweepConfirmsOrErrors ==
    [][\A r \in CallIds :
           (calls[r].pc = "idle" /\ calls'[r].wf = "_poll_unconfirmed_resizes")
           => LET u == instances["i1"]
                  eligible == /\ ~u.deleted
                              /\ u.vm_state = "resized" /\ u.task_state = None
                  what == calls'[r].swept
                  asked == \E c \in CallIds :
                               /\ calls[c].pc = "idle"
                               /\ calls'[c].wf = "confirm_resize"
              IN  /\ calls'[r].window = 0
                       => /\ what = "nothing" /\ ~asked
                          /\ UNCHANGED <<instances, migration>>
                  /\ calls'[r].window > 0
                       => /\ what \in {"confirm", "confirm_failed", "error"}
                          /\ what \in {"confirm", "confirm_failed"} <=> eligible
                          /\ asked <=> what = "confirm"
                          /\ what = "error"
                               => /\ migration'.status = "error"
                                  /\ instances' = instances
                          /\ what = "confirm_failed"
                               => UNCHANGED <<instances, migration>>
                          /\ what # "error" => migration'.status # "error"]_vars

\* the sweep has set to 'error' the migration of an instance that a delete
\* request reached while it was RESIZED
C31_Witness ==
    /\ calls["r1"].wf = "_poll_unconfirmed_resizes"
    /\ calls["r1"].swept = "error"
    /\ migration.status = "error"
    /\ instances["i1"].vm_state = "resized"
    /\ instances["i1"].task_state = "deleting"

\* C32 as stated: a step of _check_instance_build_time moves an instance to
\* vm_state ERROR only if the instance is in vm_state BUILDING at that time,
\* and a pass with instance_build_timeout = 0 changes no instance.
C32_TimeoutOnlyWhileBuilding ==
    [][\A r \in CallIds :
           (calls'[r].wf = "_check_instance_build_time" /\ calls'[r] # calls[r])
           => /\ \A i \in Instances :
                    (instances'[i].vm_state = "error" /\ instances[i].vm_state # "error")
                    => instances[i].vm_state = "building"
              /\ calls'[r].timeout = 0 => instances' = instances]_vars

\* C33 as stated: _reclaim_queued_deletes marks an instance DELETED only if
\* at that time the instance is SOFT_DELETED with task_state null, and a pass
\* with reclaim_instance_interval <= 0 deletes nothing.
C33_ReclaimOnlyQueuedDeletes ==
    [][\A r \in CallIds :
           (/\ calls[r].wf = "_reclaim_queued_deletes"
            /\ calls'[r] # calls[r]
            /\ calls[r].inst \in Instances
            /\ instances'[calls[r].inst].vm_state = "deleted"
            /\ instances[calls[r].inst].vm_state # "deleted")
           => /\ instances[calls[r].inst].vm_state = "soft-delete"
              /\ instances[calls[r].inst].task_state = None
              /\ calls[r].timeout > 0]_vars

\* C34 as stated: the step of init_host that destroys the evacuated instances
\* runs before any instance is initialized and changes no record; unless a
\* destroy fails, the driver's destroy has been invoked in it exactly for the
\* instances the hypervisor reports whose record names another host, and
\* never for one whose record names this host.
C34_DestroyExactlyEvacuated ==
    [][\A r \in CallIds :
           (/\ calls[r].wf = "init_host"
            /\ calls[r].pc = "destroy_evacuated"
            /\ calls'[r].pc # "destroy_evacuated")
           => /\ calls[r].initialized = {}
              /\ instances' = instances
              /\ \A i \in calls'[r].destroyed : instances[i].host # "h1"
              /\ calls'[r].pc # "raised"
                   => calls'[r].destroyed =
                          {i \in calls[r].reported :
                               ~instances[i].deleted /\ instances[i].host # "h1"}]_vars

C35_RegistryFollowsDriver ==
    [][/\ \A p, q \in resource_tracker_dict.dict : p[1] = q[1] => p = q
       /\ \A c \in CallIds :
              /\ (/\ calls'[c].rt # calls[c].rt
                  /\ resource_tracker_dict'.created
                         # resource_tracker_dict.created)
                 => /\ calls'[c].nodename \in calls'[c].reported
                    /\ dict_get(resource_tracker_dict.dict,
                                calls'[c].nodename) = {}
              /\ (calls[c].pc \notin Terminal
                  /\ calls'[c].exc = "NovaException")
                 => UNCHANGED resource_tracker_dict
              /\ (/\ calls'[c].wf = "update_available_resource"
                  /\ calls[c].pc \notin Terminal
                  /\ calls'[c].pc \in Terminal)
                 => known_nodes(resource_tracker_dict'.dict)
                        = calls'[c].nodenames]_vars

\* the task_state written by snapshot_instance, each from the one before it
SnapshotTaskOrder ==
    {<<"image_snapshot", "image_pending_upload">>,
     <<"image_backup", "image_pending_upload">>,
     <<"image_pending_upload", "image_uploading">>,
     <<"image_uploading", None>>}

\* C36: every step of snapshot_instance taken while no exception is being
\* handled that changes task_state moves it one place along IMAGE_SNAPSHOT
\* (IMAGE_BACKUP for a backup), IMAGE_PENDING_UPLOAD, IMAGE_UPLOADING, null,
\* from the preceding value; an update that finds another task_state is
\* rejected with UnexpectedTaskStateError, writes nothing, and the call
\* leaves at once with the task_state it found.
C36_SnapshotAdvancesInOrder ==
    [][\A c \in CallIds :
        (/\ calls[c].wf = "snapshot_instance"
         /\ calls'[c] # calls[c]
         /\ calls[c].pc \notin Terminal
         /\ calls[c].exc = "none")
        => LET old == instances[calls[c].inst]
               new == instances'[calls[c].inst]
           IN  /\ new.task_state # old.task_state
                    => /\ <<old.task_state, new.task_state>> \in SnapshotTaskOrder
                       /\ new.task_state = "image_pending_upload"
                              => old.task_state
                                     = SnapshotEntry(calls[c].image_type)
                       /\ new.vm_state = old.vm_state
               /\ calls'[c].exc = "UnexpectedTaskStateError"
                    => /\ new = old
                       /\ calls'[c].pc = "raised"
                       /\ calls'[c].exit_ts = old.task_state
               /\ (/\ calls[c].pc \in {"snapshot_pending_upload",
                                        "snapshot_uploading", "snapshot_final"}
                   /\ ~old.deleted
                   /\ old.task_state # calls[c].last_ts
                   /\ calls[c].last_ts # "unwritten")
                    => new = old]_vars

\* a delete came between two updates of a snapshot: the next update was
\* rejected and the snapshot left with task_state DELETING in place
C36_Witness ==
    \E c \in CallIds :
        /\ calls[c].wf = "snapshot_instance" /\ calls[c].pc = "raised"
        /\ calls[c].exc = "UnexpectedTaskStateError"
        /\ calls[c].last_ts = "image_pending_upload"
        /\ instances[calls[c].inst].task_state = "deleting"

\* C37: once _deallocate_network has failed in _reschedule_or_reraise the
\* build is never re-submitted to the scheduler, none of its steps writes
\* task_state SCHEDULING, its next step sets vm_state ERROR, no later step of
\* it changes vm_state, and it leaves by raising.
C37_FailedDeallocEndsInError ==
    [][\A c \in CallIds :
        (/\ calls[c].wf = "run_instance"
         /\ calls[c].dealloc_failed
         /\ calls'[c] # calls[c]
         /\ calls[c].pc \notin Terminal)
        => LET old == instances[calls[c].inst]
               new == instances'[calls[c].inst]
           IN  /\ calls'[c].resubmitted = 0
               /\ calls'[c].pc \in {"reverts_task_state", "raised"}
               /\ new.task_state # old.task_state => new.task_state = None
               /\ calls[c].pc = "run_set_error"
                    => new.vm_state = "error" /\ calls'[c].errored
               /\ calls[c].pc # "run_set_error"
                    => new.vm_state = old.vm_state /\ calls[c].errored]_vars

\* a build whose network deallocation failed has left by raising, the
\* instance in ERROR
C37_Witness ==
    \E c \in CallIds :
        /\ calls[c].wf = "run_instance" /\ calls[c].dealloc_failed
        /\ calls[c].retry /\ calls[c].request_spec
        /\ calls[c].pc = "raised" /\ calls[c].resubmitted = 0
        /\ calls[c].exit_vm = "error"
        /\ instances[calls[c].inst].vm_state = "error"

\* C39: a prep_resize or run_instance that has re-submitted its request to
\* the scheduler, task_state reset to RESIZE_PREP resp. SCHEDULING, has not
\* set vm_state ERROR and does not leave the instance in ERROR.
C39_NeverErrorAndRescheduled ==
    \A c \in CallIds :
        (/\ calls[c].wf \in {"prep_resize", "run_instance"}
         /\ calls[c].resubmitted > 0)
        => /\ ~calls[c].errored
           /\ calls[c].exit_vm # "error"

\* C40: for the reservations of one request, carried along prep_resize,
\* resize_instance and finish_resize, or by confirm_resize, or along
\* revert_resize and finish_revert_resize, quota commit and quota rollback
\* are never both applied and neither is applied twice.
C40_QuotaSettledOnce ==
    quota.commits + quota.rollbacks <= 1

=============================================================================
